---- MODULE Spec2Model ----
(***************************************************************************)
(* Patch-bay simulator: the interaction controller (js/ui/interactions.js),*)
(* the layer manager (second module in the same file), the room handling   *)
(* of the main module (unnamed/part_003) and the cross-room registry       *)
(* (unnamed/part_005), modelled as one state machine.                      *)
(*                                                                         *)
(* Lengths are integers.  Port coordinates and pointer positions are whole *)
(* pixels; the sampled cable curve is computed in tenths of a pixel, the   *)
(* fixed-point stand-in for the code's double arithmetic.                  *)
(***************************************************************************)
EXTENDS Integers, Sequences, FiniteSets, TLC

\* ------------------------------------------------------------------------
\* Values standing for JavaScript null / undefined
\* ------------------------------------------------------------------------
Null == "null"
Undefined == "undefined"

\* ------------------------------------------------------------------------
\* Configuration constants (js/config/constants.js, SCALE_FACTOR 0.89,
\* scaled(v) = Math.round(v * 0.89))
\* ------------------------------------------------------------------------
portRadius == 8
portSpacing == 28
gridOriginX == 0
gridOriginY == 9
gridPaddingTop == 0
gridPaddingLeft == -4

cableColors == <<"blue", "red", "green", "yellow", "magenta", "cyan">>

layerIds == <<"backgroundCanvas", "groupBoxCanvas", "cableCanvas", "portCanvas", "textCanvas">>
LAYER_CABLE == "cableCanvas"
LAYER_PORT == "portCanvas"

\* ------------------------------------------------------------------------
\* The room set delivered by the geometry provider: for each room the port
\* ids of the top row of its single section, by column.  p1 is shared.
\* ------------------------------------------------------------------------
NumAlphaPorts == 4
NumBetaPorts == 2

AlphaIds == <<"p1", "p2", "p3", "p4", "p6">>
BetaIds == <<"p1", "p5", "p7", "p8", "p9">>

RoomNames == <<"Alpha", "Beta">>
Rooms == {RoomNames[i] : i \in 1..Len(RoomNames)}

topRowPortIds(roomName) ==
  IF roomName = "Alpha" THEN SubSeq(AlphaIds, 1, NumAlphaPorts)
  ELSE SubSeq(BetaIds, 1, NumBetaPorts)

\* gridToCanvas(gridStartX + i * portSpacing, gridYOffset): the canvas
\* position of column i (0-based) of the top row
columnX(i) == gridOriginX + (gridPaddingLeft + 40) + i * portSpacing
topRowY == gridOriginY + (gridPaddingTop + 130)

\* generatePortsFromRoom: the ports of the room's top row
generatePortsFromRoom(roomName) ==
  LET ids == topRowPortIds(roomName)
  IN [i \in 1..Len(ids) |-> [id |-> ids[i], x |-> columnX(i - 1), y |-> topRowY]]

PortIds == {AlphaIds[i] : i \in 1..NumAlphaPorts} \cup {BetaIds[i] : i \in 1..NumBetaPorts}

\* ------------------------------------------------------------------------
\* Pointer positions and keys offered by the environment
\* ------------------------------------------------------------------------
NumColumns == IF NumAlphaPorts > NumBetaPorts THEN NumAlphaPorts ELSE NumBetaPorts
SagPoint == <<75, 170>>    \* below the row, where cables spanning the middle sag
EmptyPoint == <<75, 60>>   \* empty space above the row
PressPoints ==
  { <<columnX(i), topRowY>> : i \in 0..(NumColumns - 1) } \cup {SagPoint, EmptyPoint}
\* the positions the pointer is moved to and rests at during a tick: on the
\* first port, on the sagging cables, on empty space
MovePoints == {<<columnX(0), topRowY>>, SagPoint, EmptyPoint}
KEY_ESCAPE == 27
\* the cancellation key and one other key (13, Enter)
KeyCodes == {KEY_ESCAPE, 13}

\* ------------------------------------------------------------------------
\* State
\* ------------------------------------------------------------------------
VARIABLES
  roomStates,        \* appState.roomStates: room -> [visible, ports, connections]
  activeRoomId,      \* appState.activeRoomId
  ports,             \* appState.ports
  connections,       \* appState.connections (the active room's list)
  allConnections,    \* appState.allConnections
  activeCable,       \* appState.activeCable: origin port id or Null
  activeCableColor,  \* appState.activeCableColor
  currentColorIndex, \* appState.currentColorIndex (0-based)
  layersInitialized, \* layerManager: layersInitialized
  dirtyLayers,       \* layerManager: dirtyLayers
  registry,          \* CrossRoomRegistry: crossRoomPortRegistry
  cursor,            \* appState.cursorX, cursorY
  prevCursor,        \* appState.prevCursorX, prevCursorY
  controlOffset,     \* appState.controlOffsetX, controlOffsetY
  hoverConnection,   \* appState.hoverConnection
  closestAvailablePort, \* appState.closestAvailablePort
  reloadsInFlight,   \* calls of reloadRooms waiting for loadRooms() to settle
  nEvents,           \* history: number of events handled so far
  lastEvent,         \* history: the event handled by the last step and what it met
  cableFresh,        \* history: the cable in hand was started on an unconnected port
  freshCommits,      \* history: commits of fresh cables, modulo the palette length
  leftWith           \* history: room -> the active list it had when it stopped being active

appVars == <<roomStates, activeRoomId, ports, connections, allConnections,
             activeCable, activeCableColor, currentColorIndex>>
layerVars == <<layersInitialized, dirtyLayers>>
regVars == <<registry>>
renderVars == <<cursor, prevCursor, controlOffset, hoverConnection, closestAvailablePort>>
loadVars == <<reloadsInFlight>>
histVars == <<nEvents, lastEvent, cableFresh, freshCommits, leftWith>>
vars == <<appVars, layerVars, regVars, renderVars, loadVars, histVars>>

\* ------------------------------------------------------------------------
\* Sequence helpers (Array.prototype.splice, the first match of find)
\* ------------------------------------------------------------------------
RemoveAt(s, i) == [j \in 1..(Len(s) - 1) |-> IF j < i THEN s[j] ELSE s[j + 1]]

\* the least element of a non-empty set of indices
First(S) == CHOOSE i \in S : \A j \in S : i <= j

\* ------------------------------------------------------------------------
\* Port model (js/models/Port.js)
\* ------------------------------------------------------------------------
\* dist(x1, y1, x2, y2) squared; the code compares square roots, which
\* order the same way
dist2(x1, y1, x2, y2) == (x2 - x1) * (x2 - x1) + (y2 - y1) * (y2 - y1)

\* typeof port.x === 'number' && typeof port.y === 'number': a port object
\* that lacks a coordinate field has undefined there
hasCoordinates(port) == "x" \in DOMAIN port /\ "y" \in DOMAIN port

\* getPortAt's scan from index i on, carrying closestPort (an index into
\* portList, 0 for none) and 4 * closestDistance^2; a port without valid
\* coordinates is skipped
RECURSIVE getPortAtFrom(_, _, _, _, _, _)
getPortAtFrom(x, y, portList, i, closestPort, closestD2x4) ==
  IF i > Len(portList) THEN closestPort
  ELSE IF ~hasCoordinates(portList[i])
       THEN getPortAtFrom(x, y, portList, i + 1, closestPort, closestD2x4)
  ELSE LET d2x4 == 4 * dist2(x, y, portList[i].x, portList[i].y)
       IN IF d2x4 < closestD2x4
          THEN getPortAtFrom(x, y, portList, i + 1, i, d2x4)
          ELSE getPortAtFrom(x, y, portList, i + 1, closestPort, closestD2x4)

\* NoPort stands for null
NoPort == [id |-> Null, x |-> 0, y |-> 0]

\* const checkRadius = radius || portRadius, doubled; an omitted radius is
\* given as 0
checkTwoRadius(twoRadius) == IF twoRadius = 0 THEN 2 * portRadius ELSE twoRadius

\* variant: the first port within range is returned
getPortAt_firstWithin(x, y, portList, twoRadius) ==
  LET r == checkTwoRadius(twoRadius)
      within == {i \in 1..Len(portList) :
                   /\ hasCoordinates(portList[i])
                   /\ 4 * dist2(x, y, portList[i].x, portList[i].y) < r * r}
  IN IF within = {} THEN NoPort ELSE portList[First(within)]

\* getPortAt(x, y, ports, radius) with 2 * radius given as twoRadius
\* (the controller passes portRadius * 1.5)
getPortAt(x, y, portList, twoRadius) ==
  IF Len(portList) = 0 THEN NoPort
  ELSE LET r == checkTwoRadius(twoRadius)
           k == getPortAtFrom(x, y, portList, 1, 0, r * r)
       IN IF k = 0 THEN NoPort ELSE portList[k]

\* variant: only the from end is compared
isPortConnected_fromOnly(port, conns) ==
  \E i \in 1..Len(conns) : conns[i].from = port.id

\* conn.<field> is present (and then truthy: the fields hold port objects,
\* non-empty strings or records)
hasField(conn, field) == field \in DOMAIN conn

\* isPortConnected(port, connections): the format test of the callback;
\* === between objects is identity, a string never === an object
isPortConnected(port, conns) ==
  \E i \in 1..Len(conns) :
    LET conn == conns[i]
    IN IF hasField(conn, "port1") /\ hasField(conn, "port2")
       THEN conn.port1 = port \/ conn.port2 = port
       ELSE IF hasField(conn, "a") /\ hasField(conn, "b")
            THEN conn.a = port \/ conn.b = port
            ELSE IF hasField(conn, "from") /\ hasField(conn, "to")
                 THEN conn.from = port.id \/ conn.to = port.id
                 ELSE FALSE

\* ------------------------------------------------------------------------
\* Connection model (js/models/Connection.js)
\* ------------------------------------------------------------------------
\* null where a connection object may stand (appState.hoverConnection)
NoConnection == [from |-> Null, to |-> Null]

\* a JavaScript string handed over where a port object may be handed over
StringArg(id) == [string |-> id]

\* createConnection(portA, portB, color, roomId)
createConnection(portA, portB, color, roomId) ==
  LET portAId == IF hasField(portA, "string") THEN portA.string ELSE portA.id
      portBId == IF hasField(portB, "string") THEN portB.string ELSE portB.id
  IN [from |-> portAId, to |-> portBId, color |-> color, roomId |-> roomId,
      portA |-> [id |-> portAId, roomId |-> roomId],
      portB |-> [id |-> portBId, roomId |-> roomId],
      a |-> portA, b |-> portB]

\* undefined where a connection object may stand (the result of
\* Array.prototype.find when no element matches)
UndefinedConnection == [from |-> Undefined, to |-> Undefined]

\* the callback of findConnectionWithPort for one connection; === between
\* objects is identity, a missing field is undefined
matchesPortInRoom(conn, port, portId, roomId) ==
  IF /\ roomId # Null
     /\ hasField(conn, "roomId") /\ conn.roomId # Undefined /\ conn.roomId # Null
     /\ conn.roomId # roomId
  THEN FALSE
  ELSE \/ hasField(conn, "a") /\ conn.a = port
       \/ hasField(conn, "b") /\ conn.b = port
       \/ hasField(conn, "from") /\ conn.from = portId
       \/ hasField(conn, "to") /\ conn.to = portId
       \/ hasField(conn, "portA") /\ conn.portA.id = portId
       \/ hasField(conn, "portB") /\ conn.portB.id = portId

\* findConnectionWithPort(port, connections, roomId): null for a null port,
\* else what connections.find returns
findConnectionWithPort(port, conns, roomId) ==
  IF port = NoPort THEN NoConnection
  ELSE LET portId == IF hasField(port, "string") THEN port.string ELSE port.id
           found == {i \in 1..Len(conns) : matchesPortInRoom(conns[i], port, portId, roomId)}
       IN IF found = {} THEN UndefinedConnection ELSE conns[First(found)]

\* isPortConnectedInRoom(port, connections, roomId)
isPortConnectedInRoom(port, conns, roomId) ==
  findConnectionWithPort(port, conns, roomId) # NoConnection

\* ------------------------------------------------------------------------
\* Curve proximity (js/ui/interactions.js), in tenths of a pixel
\* ------------------------------------------------------------------------
samples == 50
Abs(n) == IF n < 0 THEN -n ELSE n
Max(a, b) == IF a > b THEN a ELSE b

\* bezierPoint(a, b, c, d, t) at t = i / samples
bezierPoint(a, b, c, d, i) ==
  LET t1 == samples - i
  IN (t1 * t1 * t1 * a + 3 * t1 * t1 * i * b + 3 * t1 * i * i * c + i * i * i * d)
       \div (samples * samples * samples)

\* lerp(start, end, amt) at amt = q / 4
lerp4(start, end, q) == (start * (4 - q) + end * q) \div 4

\* distToSegment(p, a, b) squared
distToSegment2(p, a, b) ==
  LET A == p.x - a.x
      B == p.y - a.y
      C == b.x - a.x
      D == b.y - a.y
      dot == A * C + B * D
      len_sq == C * C + D * D
      \* param = dot / len_sq, -1 when the segment is a point
      before == len_sq = 0 \/ dot < 0
      after == len_sq # 0 /\ dot > len_sq
      xx == IF before THEN a.x ELSE IF after THEN b.x ELSE a.x + (dot * C) \div len_sq
      yy == IF before THEN a.y ELSE IF after THEN b.y ELSE a.y + (dot * D) \div len_sq
  IN (p.x - xx) * (p.x - xx) + (p.y - yy) * (p.y - yy)

\* the points the loop "for (t = 0; t <= 1; t += 1 / samples)" produces: in
\* double arithmetic the 51st value of t is 1.0000000000000004, so the loop
\* body runs for t = 0, 0.02, ..., 0.98
curvePoint(a, b, offsetY, offsetX, i) ==
  LET ax == 10 * a.x
      ay == 10 * a.y
      bx == 10 * b.x
      by == 10 * b.y
      sag == 390 + (Abs(ax - bx) * 65) \div 1000
      cy == Max(ay, by) + sag + 10 * offsetY
  IN [x |-> bezierPoint(ax, lerp4(ax, bx, 1) + 10 * offsetX, lerp4(ax, bx, 3) + 10 * offsetX, bx, i),
      y |-> bezierPoint(ay, cy, cy, by, i)]

isMouseNearBezierSegments(a, b, offsetY, offsetX, threshold, mx, my) ==
  \E i \in 0..(samples - 2) :
    distToSegment2([x |-> 10 * mx, y |-> 10 * my],
                   curvePoint(a, b, offsetY, offsetX, i),
                   curvePoint(a, b, offsetY, offsetX, i + 1))
      < (10 * threshold) * (10 * threshold)

\* ------------------------------------------------------------------------
\* Layer manager (second module of js/ui/interactions.js)
\* ------------------------------------------------------------------------
LayerSet == {layerIds[i] : i \in 1..Len(layerIds)}

\* markLayerAsDirty(layerId) applied to the flags d
markLayerAsDirty(d, layerId) ==
  IF ~layersInitialized THEN d
  ELSE IF layerId \in LayerSet THEN [d EXCEPT ![layerId] = TRUE]
  ELSE d

\* variant: only the cable and port layers are marked
markAllLayersAsDirty_cableAndPort(d) ==
  IF ~layersInitialized THEN d
  ELSE [l \in LayerSet |-> d[l] \/ l \in {LAYER_CABLE, LAYER_PORT}]

\* markAllLayersAsDirty() applied to the flags d
markAllLayersAsDirty(d) ==
  IF ~layersInitialized THEN d ELSE [l \in LayerSet |-> TRUE]

\* resizeAllLayers(width, height): every layer with a context is cleared
\* and marked dirty
resizeAllLayers(d) ==
  IF ~layersInitialized THEN d ELSE [l \in LayerSet |-> TRUE]

\* variant: every layer is reported dirty
isLayerDirty_always(d, layerId) == TRUE

\* isLayerDirty(layerId) read from the flags d
isLayerDirty(d, layerId) ==
  IF ~layersInitialized THEN TRUE
  ELSE IF layerId \in LayerSet THEN d[layerId]
  ELSE TRUE

\* markLayerAsClean(layerId) applied to the flags d
markLayerAsClean(d, layerId) ==
  IF ~layersInitialized THEN d
  ELSE IF layerId \in LayerSet THEN [d EXCEPT ![layerId] = FALSE]
  ELSE d

\* clearLayer(layerId): the layer's context is cleared and the layer is
\* marked dirty
clearLayer(d, layerId) ==
  IF ~layersInitialized THEN d ELSE markLayerAsDirty(d, layerId)

\* ------------------------------------------------------------------------
\* Cross-room registry (unnamed/part_005)
\* ------------------------------------------------------------------------
\* crossRoomPortRegistry[portId] of an identifier the registry has no key for
NoEntry == [absent |-> TRUE]

\* the masterSource field of an entry that has none
NoMaster == [roomId |-> Null, connected |-> FALSE]

\* The signals and connections objects of an entry are sequences of records
\* keyed by roomId, in the insertion order JavaScript enumerates them in.
\* A connections object that does not exist yet is the empty sequence: the
\* code only ever creates it together with its first key.
hasKey(m, roomId) == \E i \in 1..Len(m) : m[i].roomId = roomId

\* m[v.roomId] = v
putKey(m, v) ==
  IF hasKey(m, v.roomId)
  THEN [i \in 1..Len(m) |-> IF m[i].roomId = v.roomId THEN v ELSE m[i]]
  ELSE Append(m, v)

\* delete m[roomId]
deleteKey(m, roomId) == SelectSeq(m, LAMBDA e : e.roomId # roomId)

\* variant: the room is pushed without the includes test
registerPort_alwaysPush(reg, portId, roomId) ==
  LET e0 == IF reg[portId] = NoEntry
            THEN [rooms |-> <<>>, signals |-> <<>>, masterSource |-> NoMaster,
                  connections |-> <<>>]
            ELSE reg[portId]
  IN [reg EXCEPT ![portId] = [e0 EXCEPT !.rooms = Append(@, roomId)]]

\* registerPort(portId, roomId) applied to the registry reg
registerPort(reg, portId, roomId) ==
  LET e0 == IF reg[portId] = NoEntry
            THEN [rooms |-> <<>>, signals |-> <<>>, masterSource |-> NoMaster,
                  connections |-> <<>>]
            ELSE reg[portId]
      e1 == IF \E i \in 1..Len(e0.rooms) : e0.rooms[i] = roomId
            THEN e0
            ELSE [e0 EXCEPT !.rooms = Append(@, roomId)]
  IN [reg EXCEPT ![portId] = e1]

\* unregisterPort(portId, roomId)
unregisterPort(reg, portId, roomId) ==
  IF reg[portId] = NoEntry THEN reg
  ELSE LET e == reg[portId]
           rooms1 == SelectSeq(e.rooms, LAMBDA r : r # roomId)
       IN IF Len(rooms1) = 0
          THEN [reg EXCEPT ![portId] = NoEntry]
          ELSE [reg EXCEPT ![portId] =
                  [e EXCEPT !.rooms = rooms1, !.signals = deleteKey(e.signals, roomId)]]

\* the forEach of propagateSignalToOtherRooms from room index i on, applied
\* to the signals object
RECURSIVE propagateFrom(_, _, _, _, _)
propagateFrom(signals, rooms, i, sourceRoomId, color) ==
  IF i > Len(rooms) THEN signals
  ELSE propagateFrom(
         IF rooms[i] # sourceRoomId
         THEN putKey(signals, [roomId |-> rooms[i], color |-> color, sourceRoom |-> sourceRoomId])
         ELSE signals,
         rooms, i + 1, sourceRoomId, color)

\* propagateSignalToOtherRooms(portId, sourceRoomId, color)
propagateSignalToOtherRooms(reg, portId, sourceRoomId, color) ==
  IF reg[portId] = NoEntry THEN reg
  ELSE [reg EXCEPT ![portId].signals =
          propagateFrom(@, reg[portId].rooms, 1, sourceRoomId, color)]

\* setMasterSource(portId, roomId, color)
setMasterSource(reg, portId, roomId, color) ==
  LET reg1 == IF reg[portId] = NoEntry THEN registerPort(reg, portId, roomId) ELSE reg
      e == reg1[portId]
      e1 == [e EXCEPT !.masterSource = [roomId |-> roomId, connected |-> TRUE],
                      !.connections = putKey(@, [roomId |-> roomId, connected |-> TRUE]),
                      !.signals = putKey(@, [roomId |-> roomId, color |-> color,
                                             sourceRoom |-> roomId])]
  IN propagateSignalToOtherRooms([reg1 EXCEPT ![portId] = e1], portId, roomId, color)

\* setPortConnectionStatus(portId, roomId, connected)
setPortConnectionStatus(reg, portId, roomId, connected) ==
  LET reg1 == IF reg[portId] = NoEntry THEN registerPort(reg, portId, roomId) ELSE reg
  IN [reg1 EXCEPT ![portId].connections =
        putKey(@, [roomId |-> roomId, connected |-> connected])]

\* variant: every call makes the calling room the master
setPortSignal_alwaysMaster(reg, portId, roomId, color) ==
  setMasterSource(reg, portId, roomId, color)

\* setPortSignal(portId, roomId, color)
setPortSignal(reg, portId, roomId, color) ==
  LET reg1 == IF reg[portId] = NoEntry THEN registerPort(reg, portId, roomId) ELSE reg
      hasExistingMaster == reg1[portId].masterSource # NoMaster
  IN IF ~hasExistingMaster
     THEN setMasterSource(reg1, portId, roomId, color)
     ELSE LET reg2 == setPortConnectionStatus(reg1, portId, roomId, TRUE)
          IN [reg2 EXCEPT ![portId].signals =
                putKey(@, [roomId |-> roomId, color |-> color,
                           sourceRoom |-> reg2[portId].masterSource.roomId])]

\* removePortSignal(portId, roomId)
removePortSignal(reg, portId, roomId) ==
  IF reg[portId] = NoEntry THEN reg
  ELSE LET remainingSignals == deleteKey(reg[portId].signals, roomId)
           sourceSignal == \E i \in 1..Len(remainingSignals) :
                             remainingSignals[i].sourceRoom = roomId
       IN [reg EXCEPT ![portId].signals =
             IF sourceSignal \/ Len(remainingSignals) = 0 THEN <<>> ELSE remainingSignals]

\* clearPortSignals(portId)
clearPortSignals(reg, portId) ==
  IF reg[portId] = NoEntry THEN reg ELSE [reg EXCEPT ![portId].signals = <<>>]

\* getPortSignalColor(portId, roomId)
getPortSignalColor(reg, portId, roomId) ==
  IF reg[portId] = NoEntry THEN Null
  ELSE LET s == SelectSeq(reg[portId].signals, LAMBDA e : e.roomId = roomId)
       IN IF Len(s) = 0 THEN Null ELSE s[1].color

\* getPortCrossRoomSignalColor(portId, currentRoomId)
getPortCrossRoomSignalColor(reg, portId, currentRoomId) ==
  IF reg[portId] = NoEntry THEN Null
  ELSE LET s == SelectSeq(reg[portId].signals, LAMBDA e : e.sourceRoom # currentRoomId)
       IN IF Len(s) = 0 THEN Null ELSE s[1].color

\* hasPortCrossRoomSignal(portId, currentRoomId)
hasPortCrossRoomSignal(reg, portId, currentRoomId) ==
  /\ reg[portId] # NoEntry
  /\ \E i \in 1..Len(reg[portId].signals) :
       reg[portId].signals[i].sourceRoom # currentRoomId

\* getPortType(portId, roomId)
getPortType(reg, portId, roomId) ==
  IF reg[portId] = NoEntry THEN "unconnected"
  ELSE LET e == reg[portId]
           isConnectedInRoom == \E i \in 1..Len(e.connections) :
                                  e.connections[i].roomId = roomId /\ e.connections[i].connected
           isMasterSource == e.masterSource # NoMaster /\ e.masterSource.roomId = roomId
           hasSignalFromOtherRoom == hasPortCrossRoomSignal(reg, portId, roomId)
       IN IF isMasterSource THEN "master"
          ELSE IF hasSignalFromOtherRoom
               THEN (IF isConnectedInRoom THEN "transmitter" ELSE "receiver")
               ELSE "unconnected"

\* variant: every type but 'unconnected' shows a ring
shouldPortShowRing_master(reg, portId, roomId) ==
  getPortType(reg, portId, roomId) # "unconnected"

\* shouldPortShowRing(portId, roomId)
shouldPortShowRing(reg, portId, roomId) ==
  LET portType == getPortType(reg, portId, roomId)
  IN portType = "receiver" \/ portType = "transmitter"

\* registerPort for every port of portList, in order
RECURSIVE registerPorts(_, _, _, _)
registerPorts(reg, portList, i, roomId) ==
  IF i > Len(portList) THEN reg
  ELSE registerPorts(registerPort(reg, portList[i].id, roomId), portList, i + 1, roomId)

\* clearRegistry()
clearRegistry == [p \in PortIds |-> NoEntry]

\* ------------------------------------------------------------------------
\* Room bookkeeping of the main module (unnamed/part_003)
\* ------------------------------------------------------------------------
\* updateGlobalConnections(): the rooms' stored lists, in room order
RECURSIVE concatRooms(_, _)
concatRooms(rs, i) ==
  IF i > Len(RoomNames) THEN <<>>
  ELSE rs[RoomNames[i]].connections \o concatRooms(rs, i + 1)

updateGlobalConnections(rs) == concatRooms(rs, 1)

\* saveConnectionsForRoom(roomId): the list stored for the room, every
\* connection without a roomId tagged with roomId
taggedConnections(conns, roomId) ==
  [i \in 1..Len(conns) |->
     IF conns[i].roomId = Undefined THEN [conns[i] EXCEPT !.roomId = roomId] ELSE conns[i]]

saveConnectionsForRoom(rs, conns, roomId) ==
  [rs EXCEPT ![roomId].connections = taggedConnections(conns, roomId)]

\* updateCombinedPortsAndConnections(): appState.ports from the room states
updateCombinedPorts(rs, active) ==
  IF active # Null /\ rs[active].visible THEN rs[active].ports ELSE <<>>

\* ------------------------------------------------------------------------
\* History of the run: what the last step handled, observed from outside
\* ------------------------------------------------------------------------
MaxEvents == 7

NoEvent == [kind |-> "setup", pos |-> <<0, 0>>, hit |-> Null, keyCode |-> 0,
            roomName |-> Null, dragging |-> FALSE, delta |-> 0, afterCommit |-> FALSE,
            portId |-> Null, color |-> Null, before |-> [absent |-> TRUE],
            redrawn |-> {}, thrown |-> FALSE, wasClean |-> FALSE,
            found |-> NoPort, radius |-> 0, afterPickUpHere |-> FALSE]

CanHandle == nEvents < MaxEvents

\* The event ev has been handled by this step.  pos is the pointer position
\* of a press and hit the id of the port under it; dragging tells whether a
\* cable was in hand when the event arrived; delta is the change of the
\* length of the active connection list; afterCommit tells whether the event
\* before this one was a press that added a connection; wasClean tells
\* whether every dirty flag was false when the event arrived;
\* afterPickUpHere tells whether this is a press on the port at which the
\* event before it picked a cable up.  A cable that comes into the hand
\* without a connection being removed was started fresh on a port; a press
\* that adds a connection commits the cable in hand.
Handled(ev) ==
  LET delta == Len(connections') - Len(connections)
  IN /\ nEvents' = nEvents + 1
     /\ lastEvent' = [ev EXCEPT !.dragging = (activeCable # Null), !.delta = delta,
                                !.afterCommit = (lastEvent.kind = "press" /\ lastEvent.delta = 1),
                                !.wasClean = (\A l \in LayerSet : ~dirtyLayers[l]),
                                !.afterPickUpHere =
                                   (/\ ev.kind = "press" /\ ev.hit # Null /\ ev.hit = lastEvent.hit
                                    /\ lastEvent.kind = "press" /\ ~lastEvent.dragging
                                    /\ lastEvent.delta = -1)]
     /\ cableFresh' = IF activeCable' = Null THEN FALSE
                      ELSE IF activeCable = Null THEN delta = 0
                      ELSE cableFresh
     /\ freshCommits' = IF ev.kind = "press" /\ delta = 1 /\ cableFresh
                        THEN (freshCommits + 1) % Len(cableColors)
                        ELSE freshCommits
     /\ leftWith' = [r \in Rooms |-> IF activeRoomId = r /\ activeRoomId' # r
                                     THEN connections ELSE leftWith[r]]

\* ------------------------------------------------------------------------
\* Initial state: setup() has run and loadRooms() has resolved
\* ------------------------------------------------------------------------
Init ==
  /\ roomStates = [r \in Rooms |-> [visible |-> FALSE, ports |-> <<>>, connections |-> <<>>]]
  /\ activeRoomId = Null
  /\ ports = <<>>
  /\ connections = <<>>
  /\ allConnections = <<>>
  /\ activeCable = Null
  /\ activeCableColor = Null
  /\ currentColorIndex = 0
  /\ layersInitialized = TRUE
  /\ dirtyLayers = [l \in LayerSet |-> TRUE]
  /\ registry = [p \in PortIds |-> NoEntry]
  /\ cursor = <<0, 0>>
  /\ prevCursor = <<0, 0>>
  /\ controlOffset = <<0, 0>>
  /\ hoverConnection = NoConnection
  /\ closestAvailablePort = NoPort
  /\ reloadsInFlight = 0
  /\ nEvents = 0
  /\ lastEvent = NoEvent
  /\ cableFresh = FALSE
  /\ freshCommits = 0
  /\ leftWith = [r \in Rooms |-> <<>>]

\* ------------------------------------------------------------------------
\* Interaction controller (js/ui/interactions.js)
\* ------------------------------------------------------------------------
\* ports.find(port => port.id === id)
portWithId(portList, id) ==
  LET found == {i \in 1..Len(portList) : portList[i].id = id}
  IN IF found = {} THEN NoPort ELSE portList[First(found)]

\* isMouseNearBezierSegments(a, b, 0, 0, 16, mx, my) for ports a and b in
\* columns i and j of the top row and the pointer at pt, computed once for
\* all columns and pointer positions
nearTopRowCurve ==
  [i \in 0..(NumColumns - 1), j \in 0..(NumColumns - 1), pt \in PressPoints |->
     isMouseNearBezierSegments([x |-> columnX(i), y |-> topRowY],
                               [x |-> columnX(j), y |-> topRowY], 0, 0, 16, pt[1], pt[2])]

\* the column of the top row a port sits in
columnOf(port) == (port.x - columnX(0)) \div portSpacing

\* the test of the curve-proximity loop of mousePressed for one connection
connectionNearMouse(conn, portList, mx, my) ==
  LET a == portWithId(portList, conn.from)
      b == portWithId(portList, conn.to)
  IN a.id # Null /\ b.id # Null /\ nearTopRowCurve[columnOf(a), columnOf(b), <<mx, my>>]

\* variant: the test looks at the from end only
targetIsConnected_fromOnly(port, conns) ==
  \E i \in 1..Len(conns) : conns[i].from = port.id

\* the local isPortConnected of mousePressed (lines 35-37)
targetIsConnected(port, conns) ==
  \E i \in 1..Len(conns) : conns[i].from = port.id \/ conns[i].to = port.id

\* variant: the commit always takes the palette colour and advances the index
PressPortDragging_paletteColour(port) ==
  IF ~targetIsConnected(port, connections)
     THEN /\ connections' = Append(connections,
                                   [from |-> activeCable, to |-> port.id,
                                    color |-> cableColors[currentColorIndex + 1],
                                    roomId |-> Undefined])
          /\ currentColorIndex' = (currentColorIndex + 1) % Len(cableColors)
          /\ activeCable' = Null
          /\ activeCableColor' = Null
          /\ dirtyLayers' = markLayerAsDirty(markLayerAsDirty(dirtyLayers, LAYER_CABLE), LAYER_PORT)
     ELSE UNCHANGED <<connections, currentColorIndex, activeCable, activeCableColor, dirtyLayers>>

\* mousePressed, a port was hit and a cable is in hand (lines 33-63)
PressPortDragging(port) ==
  IF ~targetIsConnected(port, connections)
     THEN LET cableColor == IF activeCableColor # Null THEN activeCableColor
                            ELSE cableColors[currentColorIndex + 1]
          IN /\ connections' = Append(connections,
                                      [from |-> activeCable, to |-> port.id,
                                       color |-> cableColor, roomId |-> Undefined])
             /\ currentColorIndex' = IF activeCableColor = Null
                                     THEN (currentColorIndex + 1) % Len(cableColors)
                                     ELSE currentColorIndex
             /\ activeCable' = Null
             /\ activeCableColor' = Null
             /\ dirtyLayers' = markLayerAsDirty(markLayerAsDirty(dirtyLayers, LAYER_CABLE), LAYER_PORT)
     ELSE UNCHANGED <<connections, currentColorIndex, activeCable, activeCableColor, dirtyLayers>>

\* variant: the cable stays attached to the port that was clicked
pickedUpOrigin_clickedEnd(existingConnection, port) == port.id

\* the end of the picked-up connection the cable stays attached to (lines 79-83)
pickedUpOrigin(existingConnection, port) ==
  IF existingConnection.from = port.id THEN existingConnection.to
  ELSE existingConnection.from

\* variant: a pick-up marks the cable layer only
PressPortIdle_cableOnly(port) ==
  LET found == {i \in 1..Len(connections) :
                  connections[i].from = port.id \/ connections[i].to = port.id}
      index == IF found = {} THEN 0 ELSE First(found)
  IN IF index # 0
     THEN LET existingConnection == connections[index]
          IN /\ connections' = RemoveAt(connections, index)
             /\ activeCable' = pickedUpOrigin(existingConnection, port)
             /\ activeCableColor' = existingConnection.color
             /\ dirtyLayers' = markLayerAsDirty(dirtyLayers, LAYER_CABLE)
             /\ UNCHANGED currentColorIndex
     ELSE /\ activeCable' = port.id
          /\ dirtyLayers' = markLayerAsDirty(dirtyLayers, LAYER_CABLE)
          /\ UNCHANGED <<connections, activeCableColor, currentColorIndex>>

\* mousePressed, a port was hit and no cable is in hand (lines 64-98)
PressPortIdle(port) ==
  LET found == {i \in 1..Len(connections) :
                  connections[i].from = port.id \/ connections[i].to = port.id}
      index == IF found = {} THEN 0 ELSE First(found)
  IN IF index # 0
     THEN LET existingConnection == connections[index]
          IN /\ connections' = RemoveAt(connections, index)
             /\ activeCable' = pickedUpOrigin(existingConnection, port)
             /\ activeCableColor' = existingConnection.color
             /\ dirtyLayers' = markLayerAsDirty(markLayerAsDirty(dirtyLayers, LAYER_CABLE), LAYER_PORT)
             /\ UNCHANGED currentColorIndex
     ELSE /\ activeCable' = port.id
          /\ dirtyLayers' = markLayerAsDirty(dirtyLayers, LAYER_CABLE)
          /\ UNCHANGED <<connections, activeCableColor, currentColorIndex>>

\* variant: the stored colour is not cleared
PressMissDragging_keepsColour ==
  /\ activeCable' = Null
  /\ dirtyLayers' = markLayerAsDirty(dirtyLayers, LAYER_CABLE)
  /\ UNCHANGED <<connections, currentColorIndex, activeCableColor>>

\* mousePressed, no port was hit and a cable is in hand (lines 99-105)
PressMissDragging ==
  /\ activeCable' = Null
  /\ activeCableColor' = Null
  /\ dirtyLayers' = markLayerAsDirty(dirtyLayers, LAYER_CABLE)
  /\ UNCHANGED <<connections, currentColorIndex>>

\* variant: the loop runs from the end of the list
lastConnectionNearMouse(conns, portList, mx, my) ==
  IF \E i \in 1..Len(conns) : connectionNearMouse(conns[i], portList, mx, my)
  THEN CHOOSE i \in 1..Len(conns) :
         /\ connectionNearMouse(conns[i], portList, mx, my)
         /\ \A j \in (i + 1)..Len(conns) : ~connectionNearMouse(conns[j], portList, mx, my)
  ELSE 0

\* the connection the loop of lines 109-122 stops at: the index of the first
\* connection whose curve is near the pointer, 0 when the loop runs out
firstConnectionNearMouse(conns, portList, mx, my) ==
  LET found == {i \in 1..Len(conns) : connectionNearMouse(conns[i], portList, mx, my)}
  IN IF found = {} THEN 0 ELSE First(found)

\* mousePressed, no port was hit and no cable is in hand (lines 106-123)
PressMissIdle(mx, my) ==
  LET i == firstConnectionNearMouse(connections, ports, mx, my)
  IN IF i # 0
     THEN /\ connections' = RemoveAt(connections, i)
          /\ dirtyLayers' = markLayerAsDirty(markLayerAsDirty(dirtyLayers, LAYER_CABLE), LAYER_PORT)
          /\ UNCHANGED <<activeCable, activeCableColor, currentColorIndex>>
     ELSE UNCHANGED <<connections, dirtyLayers, activeCable, activeCableColor, currentColorIndex>>

\* variant: the curve-proximity loop runs before the port test
mousePressed_curveFirst(x, y) ==
  /\ LET port == getPortAt(x, y, ports, 3 * portRadius)
     IN IF activeCable = Null /\ firstConnectionNearMouse(connections, ports, x, y) # 0
        THEN PressMissIdle(x, y)
        ELSE IF port.id # Null
        THEN IF activeCable # Null THEN PressPortDragging(port) ELSE PressPortIdle(port)
        ELSE IF activeCable # Null THEN PressMissDragging ELSE PressMissIdle(x, y)
  /\ UNCHANGED <<roomStates, activeRoomId, ports, allConnections, layersInitialized, registry>>

\* mousePressed(p5, state) with state.mouseX = x, state.mouseY = y
mousePressed(x, y) ==
  /\ LET port == getPortAt(x, y, ports, 3 * portRadius)
     IN IF port.id # Null
        THEN IF activeCable # Null THEN PressPortDragging(port) ELSE PressPortIdle(port)
        ELSE IF activeCable # Null THEN PressMissDragging ELSE PressMissIdle(x, y)
  /\ UNCHANGED <<roomStates, activeRoomId, ports, allConnections, layersInitialized, registry>>

\* variant: the stored colour is not cleared
keyPressed_keepsColour(keyCode) ==
  /\ IF keyCode = KEY_ESCAPE /\ activeCable # Null
     THEN /\ activeCable' = Null
          /\ dirtyLayers' = markLayerAsDirty(dirtyLayers, LAYER_CABLE)
          /\ UNCHANGED activeCableColor
     ELSE UNCHANGED <<activeCable, activeCableColor, dirtyLayers>>
  /\ UNCHANGED <<roomStates, activeRoomId, ports, connections, allConnections,
                 currentColorIndex, layersInitialized, registry>>

\* keyPressed(p5, state) with p5.keyCode = keyCode
keyPressed(keyCode) ==
  /\ IF keyCode = KEY_ESCAPE /\ activeCable # Null
     THEN /\ activeCable' = Null
          /\ activeCableColor' = Null
          /\ dirtyLayers' = markLayerAsDirty(dirtyLayers, LAYER_CABLE)
     ELSE UNCHANGED <<activeCable, activeCableColor, dirtyLayers>>
  /\ UNCHANGED <<roomStates, activeRoomId, ports, connections, allConnections,
                 currentColorIndex, layersInitialized, registry>>

\* clearAllPatches(state)
clearAllPatches ==
  /\ IF Len(connections) > 0
     THEN /\ connections' = <<>>
          /\ dirtyLayers' = markLayerAsDirty(markLayerAsDirty(dirtyLayers, LAYER_CABLE), LAYER_PORT)
     ELSE UNCHANGED <<connections, dirtyLayers>>
  /\ UNCHANGED <<roomStates, activeRoomId, ports, allConnections, activeCable, activeCableColor,
                 currentColorIndex, layersInitialized, registry>>

\* ------------------------------------------------------------------------
\* Room events (unnamed/part_003)
\* ------------------------------------------------------------------------
\* showRoom(event) with event.detail.roomName = roomName
showRoom(roomName) ==
  LET switching == activeRoomId # Null /\ activeRoomId # roomName
      rs1 == IF switching
             THEN [saveConnectionsForRoom(roomStates, connections, activeRoomId)
                     EXCEPT ![activeRoomId].visible = FALSE, ![activeRoomId].ports = <<>>]
             ELSE roomStates
      newPorts == generatePortsFromRoom(roomName)
      rs2 == [rs1 EXCEPT ![roomName].visible = TRUE, ![roomName].ports = newPorts]
  IN /\ roomStates' = rs2
     /\ allConnections' = IF switching THEN updateGlobalConnections(rs1) ELSE allConnections
     /\ activeRoomId' = roomName
     /\ registry' = registerPorts(registry, newPorts, 1, roomName)
     /\ connections' = rs2[roomName].connections
     /\ ports' = updateCombinedPorts(rs2, roomName)
     /\ dirtyLayers' = markAllLayersAsDirty(resizeAllLayers(dirtyLayers))
     /\ UNCHANGED <<activeCable, activeCableColor, currentColorIndex, layersInitialized>>

\* hideRoom(event) with event.detail.roomName = roomName
hideRoom(roomName) ==
  LET wasActive == activeRoomId = roomName
      rs1 == IF wasActive THEN saveConnectionsForRoom(roomStates, connections, roomName)
             ELSE roomStates
      active1 == IF wasActive THEN Null ELSE activeRoomId
      rs2 == [rs1 EXCEPT ![roomName].visible = FALSE, ![roomName].ports = <<>>]
  IN /\ roomStates' = rs2
     /\ allConnections' = IF wasActive THEN updateGlobalConnections(rs1) ELSE allConnections
     /\ activeRoomId' = active1
     /\ activeCable' = Null
     /\ connections' = <<>>
     /\ ports' = updateCombinedPorts(rs2, active1)
     /\ dirtyLayers' = markAllLayersAsDirty(dirtyLayers)
     /\ UNCHANGED <<activeCableColor, currentColorIndex, layersInitialized, registry>>

\* ------------------------------------------------------------------------
\* Reloading the room set (unnamed/part_003, window.reloadRooms)
\* ------------------------------------------------------------------------
\* variant: the active connection list survives the reload
reloadRooms_keepsActiveList ==
  /\ roomStates' = [r \in Rooms |-> [visible |-> FALSE, ports |-> <<>>, connections |-> <<>>]]
  /\ registry' = clearRegistry
  /\ activeRoomId' = Null
  /\ connections' = connections
  /\ allConnections' = <<>>
  /\ ports' = <<>>
  /\ dirtyLayers' = markAllLayersAsDirty(dirtyLayers)
  /\ UNCHANGED <<activeCable, activeCableColor, currentColorIndex, layersInitialized>>

\* reloadRooms after "await loadRooms()" has resolved with the room set.
\* The room objects of loadRooms carry name and sections and no ports
\* array, so initializeRegistryFromRooms registers nothing after its
\* clearRegistry().
reloadRooms ==
  /\ roomStates' = [r \in Rooms |-> [visible |-> FALSE, ports |-> <<>>, connections |-> <<>>]]
  /\ registry' = clearRegistry
  /\ activeRoomId' = Null
  /\ connections' = <<>>
  /\ allConnections' = <<>>
  /\ ports' = <<>>
  /\ dirtyLayers' = markAllLayersAsDirty(dirtyLayers)
  /\ UNCHANGED <<activeCable, activeCableColor, currentColorIndex, layersInitialized>>

\* ------------------------------------------------------------------------
\* Pointer movement (js/ui/interactions.js, mouseMoved)
\* ------------------------------------------------------------------------
\* mouseMoved(p5, state) with state.mouseX = x, state.mouseY = y.  Positions
\* are whole pixels, so a movement is above 0.5 exactly when it is not zero.
mouseMoved(x, y) ==
  LET dx == x - cursor[1]
      dy == y - cursor[2]
      significantMovement == Abs(dx) > 0 \/ Abs(dy) > 0
      d1 == IF activeCable # Null \/ significantMovement
            THEN markLayerAsDirty(dirtyLayers, LAYER_CABLE) ELSE dirtyLayers
      hoveredPort == getPortAt(x, y, ports, 3 * portRadius)
  IN /\ cursor' = <<x, y>>
     /\ dirtyLayers' = IF hoveredPort.id # Null THEN markLayerAsDirty(d1, LAYER_PORT) ELSE d1
     /\ UNCHANGED <<appVars, layersInitialized, registry, prevCursor, controlOffset,
                    hoverConnection, closestAvailablePort>>

\* ------------------------------------------------------------------------
\* Renderer (js/ui/renderer.js)
\* ------------------------------------------------------------------------
cableDeleteThreshold == 11
targetFrameRate == 60

\* the frame rates p5.frameRate() reports; at 12 frames per second
\* dampingFactor = 0.2 * (60 / 12) is exactly 1
FrameRates == {12}

\* isMouseNearBezierSegments(a, b, 0, 0, cableDeleteThreshold, mx, my) for
\* ports in columns i and j of the top row, computed once
hoverTopRowCurve ==
  [i \in 0..(NumColumns - 1), j \in 0..(NumColumns - 1), pt \in PressPoints |->
     isMouseNearBezierSegments([x |-> columnX(i), y |-> topRowY],
                               [x |-> columnX(j), y |-> topRowY], 0, 0,
                               cableDeleteThreshold, pt[1], pt[2])]

\* findClosestAvailablePort's scan from index i on, carrying the closest
\* port (an index, 0 for none) and its squared distance (-1 for Infinity)
RECURSIVE closestAvailableFrom(_, _, _, _, _)
closestAvailableFrom(mx, my, i, closest, closestD2) ==
  IF i > Len(ports) THEN <<closest, closestD2>>
  ELSE LET p == ports[i]
           d2 == dist2(p.x, p.y, mx, my)
       IN IF /\ (activeCable = Null \/ p.id # activeCable)
             /\ ~isPortConnected(p, connections)
             /\ (closestD2 < 0 \/ d2 < closestD2)
          THEN closestAvailableFrom(mx, my, i + 1, i, d2)
          ELSE closestAvailableFrom(mx, my, i + 1, closest, closestD2)

\* findClosestAvailablePort(state) with state.mouseX = mx, state.mouseY = my;
\* highlightThreshold is portRadius * 1.5
findClosestAvailablePort(mx, my) ==
  LET r == closestAvailableFrom(mx, my, 1, 0, -1)
  IN IF r[1] # 0 /\ 4 * r[2] <= (3 * portRadius) * (3 * portRadius)
     THEN ports[r[1]] ELSE NoPort

\* the value drawCables leaves in state.hoverConnection: the last
\* connection of the list the pointer hovers over, outside the safe zone of
\* every port and with no cable in hand
drawCables(hover, mx, my) ==
  LET inSafeZone == getPortAt(mx, my, ports, 3 * portRadius).id # Null
      hovering == {i \in 1..Len(connections) :
                     LET a == portWithId(ports, connections[i].from)
                         b == portWithId(ports, connections[i].to)
                     IN /\ a.id # Null
                        /\ b.id # Null
                        /\ hoverTopRowCurve[columnOf(a), columnOf(b), <<mx, my>>]
                        /\ ~inSafeZone
                        /\ activeCable = Null}
  IN IF hovering = {} THEN hover
     ELSE connections[CHOOSE i \in hovering : \A j \in hovering : j <= i]

\* variant: the layer is cleared after it has been marked clean
redrawLayer_clearLast(d, layerId) == clearLayer(markLayerAsClean(d, layerId), layerId)

\* the body of "if (isLayerDirty(layer))": clear the layer, draw it, mark
\* it clean
redrawLayer(d, layerId) == markLayerAsClean(clearLayer(d, layerId), layerId)

\* the five "if (isLayerDirty(layer)) { ... }" statements, from layer i on
RECURSIVE redrawFrom(_, _)
redrawFrom(d, i) ==
  IF i > Len(layerIds) THEN d
  ELSE redrawFrom(IF isLayerDirty(d, layerIds[i]) THEN redrawLayer(d, layerIds[i]) ELSE d,
                  i + 1)

\* the layers the five statements clear and draw
redrawnLayers(d) == {l \in LayerSet : isLayerDirty(d, l)}

\* the flags when the tick reaches the five statements: without a visible
\* room they are as the tick found them; with one, the tick has marked the
\* cable layer after a cursor movement or with a cable in hand and the port
\* layer when the closest available port changed
flagsAtRedraw(mx, my) ==
  LET hasVisibleRooms == \E r \in Rooms : roomStates[r].visible
      significantMovement == cursor # prevCursor
      closestPortChanged == closestAvailablePort # findClosestAvailablePort(mx, my)
      d1 == IF significantMovement \/ activeCable # Null
            THEN markLayerAsDirty(dirtyLayers, LAYER_CABLE) ELSE dirtyLayers
      d2 == IF closestPortChanged THEN markLayerAsDirty(d1, LAYER_PORT) ELSE d1
  IN IF hasVisibleRooms THEN d2 ELSE dirtyLayers

\* draw(p5, state) with state.mouseX = mx, state.mouseY = my and
\* p5.frameRate() = frameRate
draw(mx, my, frameRate) ==
  LET hasVisibleRooms == \E r \in Rooms : roomStates[r].visible
      dx == cursor[1] - prevCursor[1]
      dy == cursor[2] - prevCursor[2]
      \* controlOffset += (d * 2 - controlOffset) * 0.2 * (60 / frameRate)
      damped(offset, d) ==
        offset + ((d * 2 - offset) * targetFrameRate) \div (5 * frameRate)
  IN \E d \in {flagsAtRedraw(mx, my)} :
     /\ dirtyLayers' = redrawFrom(d, 1)
     /\ IF hasVisibleRooms
        THEN /\ controlOffset' = <<damped(controlOffset[1], dx), damped(controlOffset[2], dy)>>
             /\ prevCursor' = cursor
             /\ closestAvailablePort' = findClosestAvailablePort(mx, my)
             /\ hoverConnection' = IF isLayerDirty(d, LAYER_CABLE)
                                    THEN drawCables(NoConnection, mx, my)
                                    ELSE NoConnection
        ELSE /\ hoverConnection' = NoConnection
             /\ UNCHANGED <<controlOffset, prevCursor, closestAvailablePort>>
     /\ UNCHANGED <<appVars, layersInitialized, registry, cursor>>

\* ------------------------------------------------------------------------
\* The events of a run
\* ------------------------------------------------------------------------
\* window.mousePressed: the pointer position is stored in appState.mouseX /
\* mouseY and mousePressed runs
MousePressed(x, y) ==
  /\ CanHandle
  /\ mousePressed(x, y)
  /\ UNCHANGED <<renderVars, loadVars>>
  /\ Handled([NoEvent EXCEPT !.kind = "press", !.pos = <<x, y>>,
                              !.hit = getPortAt(x, y, ports, 3 * portRadius).id])

\* window.keyPressed
KeyPressed(keyCode) ==
  /\ CanHandle
  /\ keyPressed(keyCode)
  /\ UNCHANGED <<renderVars, loadVars>>
  /\ Handled([NoEvent EXCEPT !.kind = "key", !.keyCode = keyCode])

\* the click listener of the "Clear All Patches" button
ClearAllPatches ==
  /\ CanHandle
  /\ clearAllPatches
  /\ UNCHANGED <<renderVars, loadVars>>
  /\ Handled([NoEvent EXCEPT !.kind = "clearAll"])

\* the 'showRoom' window event
ShowRoom(roomName) ==
  /\ CanHandle
  /\ showRoom(roomName)
  /\ UNCHANGED <<renderVars, loadVars>>
  /\ Handled([NoEvent EXCEPT !.kind = "showRoom", !.roomName = roomName])

\* the 'hideRoom' window event
HideRoom(roomName) ==
  /\ CanHandle
  /\ hideRoom(roomName)
  /\ UNCHANGED <<renderVars, loadVars>>
  /\ Handled([NoEvent EXCEPT !.kind = "hideRoom", !.roomName = roomName])

\* ------------------------------------------------------------------------
\* Specification
\* ------------------------------------------------------------------------
Next ==
  \/ \E pt \in PressPoints : MousePressed(pt[1], pt[2])
  \/ \E k \in KeyCodes : KeyPressed(k)
  \/ ClearAllPatches
  \/ \E r \in Rooms : ShowRoom(r)
  \/ \E r \in Rooms : HideRoom(r)

Spec == Init /\ [][Next]_vars

\* ------------------------------------------------------------------------
\* The application with its render tick, pointer movement and room-set
\* reloads.  The pointer stays inside the canvas container, so every handler
\* overwrites appState.mouseX / mouseY before it reads them.
\* ------------------------------------------------------------------------
MaxAppEvents == 5
MaxReloadsInFlight == 1

CanHandleApp == nEvents < MaxAppEvents

\* window.draw: one animation tick
Draw(mx, my, frameRate) ==
  /\ CanHandle
  /\ IF layersInitialized THEN draw(mx, my, frameRate)
     ELSE UNCHANGED <<appVars, layerVars, regVars, renderVars>>
  /\ UNCHANGED loadVars
  /\ Handled([NoEvent EXCEPT !.kind = "draw", !.pos = <<mx, my>>,
                              !.redrawn = redrawnLayers(flagsAtRedraw(mx, my))])

\* window.mouseMoved
MouseMoved(x, y) ==
  /\ CanHandle
  /\ mouseMoved(x, y)
  /\ UNCHANGED loadVars
  /\ Handled([NoEvent EXCEPT !.kind = "move", !.pos = <<x, y>>])

\* window.reloadRooms up to "await loadRooms()"
ReloadRoomsCalled ==
  /\ CanHandle
  /\ reloadsInFlight < MaxReloadsInFlight
  /\ reloadsInFlight' = reloadsInFlight + 1
  /\ UNCHANGED <<appVars, layerVars, regVars, renderVars>>
  /\ Handled([NoEvent EXCEPT !.kind = "reloadCalled"])

\* loadRooms() resolves and reloadRooms runs to its end
ReloadRoomsResolved ==
  /\ CanHandle
  /\ reloadsInFlight > 0
  /\ reloadRooms
  /\ reloadsInFlight' = reloadsInFlight - 1
  /\ UNCHANGED renderVars
  /\ Handled([NoEvent EXCEPT !.kind = "reloadResolved"])

\* loadRooms() rejects: the catch block of reloadRooms only logs
ReloadRoomsRejected ==
  /\ CanHandle
  /\ reloadsInFlight > 0
  /\ reloadsInFlight' = reloadsInFlight - 1
  /\ UNCHANGED <<appVars, layerVars, regVars, renderVars>>
  /\ Handled([NoEvent EXCEPT !.kind = "reloadRejected"])

\* window.mousePressed with an error raised inside mousePressed before its
\* first assignment: neither function has a try block, so no statement
\* after the throw runs and the error leaves the handler
MousePressedThrows(x, y) ==
  /\ CanHandle
  /\ UNCHANGED <<appVars, layerVars, regVars, renderVars, loadVars>>
  /\ Handled([NoEvent EXCEPT !.kind = "pressThrows", !.pos = <<x, y>>, !.thrown = TRUE,
                              !.hit = getPortAt(x, y, ports, 3 * portRadius).id])

AppNext ==
  \/ CanHandleApp /\ \E pt \in PressPoints : MousePressed(pt[1], pt[2])
  \/ CanHandleApp /\ \E k \in KeyCodes : KeyPressed(k)
  \/ CanHandleApp /\ ClearAllPatches
  \/ CanHandleApp /\ \E r \in Rooms : ShowRoom(r)
  \/ CanHandleApp /\ \E r \in Rooms : HideRoom(r)
  \/ CanHandleApp /\ \E pt \in MovePoints, f \in FrameRates : Draw(pt[1], pt[2], f)
  \/ CanHandleApp /\ \E pt \in MovePoints : MouseMoved(pt[1], pt[2])
  \/ CanHandleApp /\ ReloadRoomsCalled
  \/ CanHandleApp /\ ReloadRoomsResolved
  \/ CanHandleApp /\ ReloadRoomsRejected
  \/ CanHandleApp /\ \E pt \in MovePoints : MousePressedThrows(pt[1], pt[2])

AppSpec == Init /\ [][AppNext]_vars

\* ------------------------------------------------------------------------
\* The application under its animation loop: p5 calls window.draw once per
\* frame for as long as the page lives, so the tick is always enabled and
\* is taken again and again, while the other events are counted
\* ------------------------------------------------------------------------
MaxLoopEvents == 4

CanHandleLoop == nEvents < MaxLoopEvents

\* window.draw called by the animation loop
Tick(mx, my, frameRate) ==
  /\ IF layersInitialized THEN draw(mx, my, frameRate)
     ELSE UNCHANGED <<appVars, layerVars, regVars, renderVars>>
  /\ \E d \in {flagsAtRedraw(mx, my)} :
       lastEvent' = [NoEvent EXCEPT !.kind = "tick", !.pos = <<mx, my>>,
                                    !.dragging = (activeCable # Null),
                                    !.redrawn = redrawnLayers(d)]
  /\ UNCHANGED <<loadVars, nEvents, cableFresh, freshCommits, leftWith>>

\* the next frame
NextFrame == \E pt \in MovePoints, f \in FrameRates : Tick(pt[1], pt[2], f)

LoopNext ==
  \/ CanHandleLoop /\ \E pt \in PressPoints : MousePressed(pt[1], pt[2])
  \/ CanHandleLoop /\ \E k \in KeyCodes : KeyPressed(k)
  \/ CanHandleLoop /\ ClearAllPatches
  \/ CanHandleLoop /\ \E r \in Rooms : ShowRoom(r)
  \/ CanHandleLoop /\ \E r \in Rooms : HideRoom(r)
  \/ CanHandleLoop /\ \E pt \in MovePoints : MouseMoved(pt[1], pt[2])
  \/ CanHandleLoop /\ ReloadRoomsCalled
  \/ CanHandleLoop /\ ReloadRoomsResolved
  \/ CanHandleLoop /\ ReloadRoomsRejected
  \/ NextFrame

LoopSpec == Init /\ [][LoopNext]_vars /\ WF_vars(NextFrame)

\* ------------------------------------------------------------------------
\* The cross-room registry driven through its exported functions
\* (unnamed/part_005), starting from the empty registry
\* ------------------------------------------------------------------------
MaxCalls == 5

\* the rooms object handed to initializeRegistryFromRooms: room id -> ids of
\* the room's ports, in key order
RegistryRoomNames == <<"Alpha", "Beta", "Gamma">>
RegistryRooms == {RegistryRoomNames[i] : i \in 1..Len(RegistryRoomNames)}
RegistryRoomPorts == [Alpha |-> <<"p1", "p2">>, Beta |-> <<"p1">>, Gamma |-> <<"p1">>]

\* the identifiers and colours the calls are made with
RegistryPortIds == {"p1"}
SignalColors == {cableColors[1], cableColors[2]}

\* the two forEach loops of initializeRegistryFromRooms from room i, port j on
RECURSIVE registerRoomsFrom(_, _, _)
registerRoomsFrom(reg, i, j) ==
  IF i > Len(RegistryRoomNames) THEN reg
  ELSE LET roomId == RegistryRoomNames[i]
       IN IF j > Len(RegistryRoomPorts[roomId]) THEN registerRoomsFrom(reg, i + 1, 1)
          ELSE registerRoomsFrom(registerPort(reg, RegistryRoomPorts[roomId][j], roomId), i, j + 1)

\* initializeRegistryFromRooms(rooms)
initializeRegistryFromRooms == registerRoomsFrom(clearRegistry, 1, 1)

\* one call of an exported function: the registry becomes reg1; the call and
\* the entry its identifier had before are recorded in the history
RegistryCall(ev, reg1) ==
  /\ nEvents < MaxCalls
  /\ registry' = reg1
  /\ nEvents' = nEvents + 1
  /\ lastEvent' = [ev EXCEPT !.before = IF ev.portId = Null THEN NoEntry
                                        ELSE registry[ev.portId]]
  /\ UNCHANGED <<appVars, layerVars, cableFresh, freshCommits, renderVars, loadVars, leftWith>>

RegisterPort(portId, roomId) ==
  RegistryCall([NoEvent EXCEPT !.kind = "registerPort", !.portId = portId, !.roomName = roomId],
               registerPort(registry, portId, roomId))

UnregisterPort(portId, roomId) ==
  RegistryCall([NoEvent EXCEPT !.kind = "unregisterPort", !.portId = portId, !.roomName = roomId],
               unregisterPort(registry, portId, roomId))

SetPortSignal(portId, roomId, color) ==
  RegistryCall([NoEvent EXCEPT !.kind = "setPortSignal", !.portId = portId,
                               !.roomName = roomId, !.color = color],
               setPortSignal(registry, portId, roomId, color))

RemovePortSignal(portId, roomId) ==
  RegistryCall([NoEvent EXCEPT !.kind = "removePortSignal", !.portId = portId, !.roomName = roomId],
               removePortSignal(registry, portId, roomId))

ClearPortSignals(portId) ==
  RegistryCall([NoEvent EXCEPT !.kind = "clearPortSignals", !.portId = portId],
               clearPortSignals(registry, portId))

InitializeRegistryFromRooms ==
  RegistryCall([NoEvent EXCEPT !.kind = "initializeRegistryFromRooms"],
               initializeRegistryFromRooms)

RegistryNext ==
  \/ \E p \in RegistryPortIds, r \in RegistryRooms : RegisterPort(p, r)
  \/ \E p \in RegistryPortIds, r \in RegistryRooms : UnregisterPort(p, r)
  \/ \E p \in RegistryPortIds, r \in RegistryRooms, c \in SignalColors : SetPortSignal(p, r, c)
  \/ \E p \in RegistryPortIds, r \in RegistryRooms : RemovePortSignal(p, r)
  \/ \E p \in RegistryPortIds : ClearPortSignals(p)
  \/ InitializeRegistryFromRooms

RegistrySpec == Init /\ [][RegistryNext]_vars

\* ------------------------------------------------------------------------
\* The connection bookkeeping exported on window (unnamed/part_003):
\* addConnection and removeConnection called between room events
\* ------------------------------------------------------------------------
MaxBookEvents == 5

CanHandleBook == nEvents < MaxBookEvents

\* updateCrossRoomSignalsForConnection(connection)
updateCrossRoomSignalsForConnection(reg, connection) ==
  IF connection.roomId = Undefined THEN reg
  ELSE setPortSignal(setPortSignal(reg, connection.from, connection.roomId, connection.color),
                     connection.to, connection.roomId, connection.color)

\* clearCrossRoomSignalsForConnection(connection), run on the list conns the
\* connection has been spliced out of
clearCrossRoomSignalsForConnection(reg, conns, connection) ==
  IF connection.roomId = Undefined THEN reg
  ELSE LET hasOtherConnections(portId) ==
             \E k \in 1..Len(conns) : conns[k].from = portId \/ conns[k].to = portId
           reg1 == IF ~hasOtherConnections(connection.from)
                   THEN removePortSignal(reg, connection.from, connection.roomId) ELSE reg
       IN IF ~hasOtherConnections(connection.to)
          THEN removePortSignal(reg1, connection.to, connection.roomId) ELSE reg1

\* addConnection(connection) with connection = { from, to, color }
addConnection(from, to, color) ==
  IF activeRoomId = Null
  THEN UNCHANGED <<appVars, layerVars, regVars>>
  ELSE LET connection == [from |-> from, to |-> to, color |-> color, roomId |-> activeRoomId]
       IN /\ connections' = Append(connections, connection)
          /\ registry' = updateCrossRoomSignalsForConnection(registry, connection)
          /\ allConnections' = updateGlobalConnections(roomStates)
          /\ UNCHANGED <<roomStates, activeRoomId, ports, activeCable, activeCableColor,
                         currentColorIndex, layerVars>>

\* removeConnection(connection) with connection the index-th object of
\* appState.connections
removeConnection(index) ==
  IF activeRoomId = Null
  THEN UNCHANGED <<appVars, layerVars, regVars>>
  ELSE LET connection == connections[index]
           rest == RemoveAt(connections, index)
       IN /\ connections' = rest
          /\ registry' = clearCrossRoomSignalsForConnection(registry, rest, connection)
          /\ allConnections' = updateGlobalConnections(roomStates)
          /\ UNCHANGED <<roomStates, activeRoomId, ports, activeCable, activeCableColor,
                         currentColorIndex, layerVars>>

\* window.addConnection
AddConnection(from, to, color) ==
  /\ CanHandle
  /\ addConnection(from, to, color)
  /\ UNCHANGED <<renderVars, loadVars>>
  /\ Handled([NoEvent EXCEPT !.kind = "addConnection", !.portId = from, !.color = color])

\* window.removeConnection
RemoveConnection(index) ==
  /\ CanHandle
  /\ removeConnection(index)
  /\ UNCHANGED <<renderVars, loadVars>>
  /\ Handled([NoEvent EXCEPT !.kind = "removeConnection"])

BookNext ==
  \/ CanHandleBook /\ \E r \in Rooms : ShowRoom(r)
  \/ CanHandleBook /\ \E r \in Rooms : HideRoom(r)
  \/ CanHandleBook /\ \E i \in 1..Len(ports), j \in 1..Len(ports), c \in SignalColors :
                        i < j /\ AddConnection(ports[i].id, ports[j].id, c)
  \/ CanHandleBook /\ \E i \in 1..Len(connections) : RemoveConnection(i)

BookSpec == Init /\ [][BookNext]_vars

\* ------------------------------------------------------------------------
\* The connection and port models driven through their exported functions:
\* port objects are generated for a room, connections are created in the
\* encodings the code produces, and the room's port objects are generated
\* again.  The field object tells the port objects of one generation from
\* those of the next.
\* ------------------------------------------------------------------------
MaxModelCalls == 4

\* the port objects generatePortsFromRoom allocates on its n-th run
portObjects(roomName, n) ==
  LET fresh == generatePortsFromRoom(roomName)
  IN [i \in 1..Len(fresh) |->
        [id |-> fresh[i].id, x |-> fresh[i].x, y |-> fresh[i].y, object |-> n]]

\* one call: the port list and the connection list become ports1 and conns1
ModelCall(kind, ports1, conns1) ==
  /\ nEvents < MaxModelCalls
  /\ ports' = ports1
  /\ connections' = conns1
  /\ nEvents' = nEvents + 1
  /\ lastEvent' = [NoEvent EXCEPT !.kind = kind]
  /\ UNCHANGED <<roomStates, activeRoomId, allConnections, activeCable, activeCableColor,
                 currentColorIndex, layerVars, regVars, cableFresh, freshCommits, renderVars, loadVars, leftWith>>

\* ports = generatePortsFromRoom(room).ports, for the first time or again
GeneratePorts ==
  ModelCall("generatePorts",
            portObjects("Beta", IF Len(ports) = 0 THEN 1 ELSE ports[1].object + 1),
            connections)

\* connections.push(createConnection(portA, portB, color, roomId)), port objects given
CreateConnectionFromPorts(i, j) ==
  ModelCall("createConnectionFromPorts", ports,
            Append(connections, createConnection(ports[i], ports[j], cableColors[1], "Beta")))

\* connections.push(createConnection(idA, idB, color, roomId)), id strings given
CreateConnectionFromIds(i, j) ==
  ModelCall("createConnectionFromIds", ports,
            Append(connections, createConnection(StringArg(ports[i].id), StringArg(ports[j].id),
                                                 cableColors[1], "Beta")))

\* state.connections.push({ from, to, color }) of mousePressed
PushControllerRecord(i, j) ==
  ModelCall("pushControllerRecord", ports,
            Append(connections, [from |-> ports[i].id, to |-> ports[j].id,
                                 color |-> cableColors[1], roomId |-> Undefined]))

ModelNext ==
  \/ GeneratePorts
  \/ \E i \in 1..Len(ports), j \in 1..Len(ports) : CreateConnectionFromPorts(i, j)
  \/ \E i \in 1..Len(ports), j \in 1..Len(ports) : CreateConnectionFromIds(i, j)
  \/ \E i \in 1..Len(ports), j \in 1..Len(ports) : PushControllerRecord(i, j)

ModelSpec == Init /\ [][ModelNext]_vars

\* ------------------------------------------------------------------------
\* The port model called directly: getPortAt on port lists that may hold
\* objects without coordinates, at pointer positions on, between and away
\* from the ports, with the controller's radius or with the radius omitted
\* ------------------------------------------------------------------------
MaxPortCalls == 2
MaxPortListLen == 3

\* port objects offered to the lists: a and c lie on the first column, b
\* twelve pixels to the right of it; m has no y and n no coordinates at all
HitPorts ==
  { [id |-> "a", x |-> columnX(0), y |-> topRowY],
    [id |-> "b", x |-> columnX(0) + 12, y |-> topRowY],
    [id |-> "c", x |-> columnX(0), y |-> topRowY],
    [id |-> "m", x |-> columnX(0)],
    [id |-> "n"] }

HitPortLists == UNION { [1..n -> HitPorts] : n \in 0..MaxPortListLen }

\* on a and c; midway between a and b; nearer to b than to a; exactly
\* 1.5 * portRadius right of b; away from every port
HitPoints ==
  { <<columnX(0), topRowY>>, <<columnX(0) + 6, topRowY>>, <<columnX(0) + 9, topRowY>>,
    <<columnX(0) + 24, topRowY>>, <<columnX(0) + 64, topRowY - 39>> }

\* twice the radius argument: omitted (0) or portRadius * 1.5
TwoRadii == {0, 3 * portRadius}

\* the state before the calls: the list the calls are made on is in ports
PortInit ==
  /\ ports \in HitPortLists
  /\ roomStates = [r \in Rooms |-> [visible |-> FALSE, ports |-> <<>>, connections |-> <<>>]]
  /\ activeRoomId = Null
  /\ connections = <<>>
  /\ allConnections = <<>>
  /\ activeCable = Null
  /\ activeCableColor = Null
  /\ currentColorIndex = 0
  /\ layersInitialized = TRUE
  /\ dirtyLayers = [l \in LayerSet |-> TRUE]
  /\ registry = [p \in PortIds |-> NoEntry]
  /\ cursor = <<0, 0>>
  /\ prevCursor = <<0, 0>>
  /\ controlOffset = <<0, 0>>
  /\ hoverConnection = NoConnection
  /\ closestAvailablePort = NoPort
  /\ reloadsInFlight = 0
  /\ nEvents = 0
  /\ lastEvent = NoEvent
  /\ cableFresh = FALSE
  /\ freshCommits = 0
  /\ leftWith = [r \in Rooms |-> <<>>]

\* getPortAt(x, y, ports, radius) is called
GetPortAtCalled(x, y, twoRadius) ==
  /\ nEvents < MaxPortCalls
  /\ nEvents' = nEvents + 1
  /\ lastEvent' = [NoEvent EXCEPT !.kind = "getPortAt", !.pos = <<x, y>>,
                                  !.radius = twoRadius,
                                  !.found = getPortAt(x, y, ports, twoRadius)]
  /\ UNCHANGED <<appVars, layerVars, regVars, cableFresh, freshCommits, renderVars,
                 loadVars, leftWith>>

PortNext ==
  \E pt \in HitPoints, twoRadius \in TwoRadii : GetPortAtCalled(pt[1], pt[2], twoRadius)

PortSpec == PortInit /\ [][PortNext]_vars

\* ------------------------------------------------------------------------
\* Vocabulary of the properties
\* ------------------------------------------------------------------------
\* the connection c references the port id on either end
References(c, id) == c.from = id \/ c.to = id

\* the port id has a connection in the list conns
HasConnection(id, conns) == \E i \in 1..Len(conns) : References(conns[i], id)

\* the number of connections of the list conns that reference the port id
EndpointCount(id, conns) == Cardinality({i \in 1..Len(conns) : References(conns[i], id)})

\* this step handles a pointer press / a key / a clear-all
PressStep == nEvents' = nEvents + 1 /\ lastEvent'.kind = "press"
KeyStep == nEvents' = nEvents + 1 /\ lastEvent'.kind = "key"
ClearStep == nEvents' = nEvents + 1 /\ lastEvent'.kind = "clearAll"

Idle == activeCable = Null
Dragging == activeCable # Null

\* C1: no port id is an endpoint of more than one connection, in the active
\* connection list and in every room's stored list
C1_PortInAtMostOneConnection ==
  \A id \in PortIds :
    /\ EndpointCount(id, connections) <= 1
    /\ \A r \in Rooms : EndpointCount(id, roomStates[r].connections) <= 1

\* the press of this step hit the port with this id (Null: no port)
Hit == lastEvent'.hit

\* the list s without its i-th element
Without(s, i) == SubSeq(s, 1, i - 1) \o SubSeq(s, i + 1, Len(s))

\* the end of the connection c that is not id (id itself for a loop)
OtherEnd(c, id) == IF c.from = id THEN c.to ELSE c.from

\* C2: while a cable is dragged from O, a press that hits O is a no-op: the
\* controller stays in Dragging with the same origin and colour, no
\* connection is created, and no connection has the same port on both ends
C2_SelfPressIsNoOp ==
  [][(PressStep /\ Dragging /\ Hit = activeCable)
       => /\ UNCHANGED <<connections, activeCable, activeCableColor>>
          /\ \A i \in 1..Len(connections') : connections'[i].from # connections'[i].to]_vars

\* C3: while a cable is dragged, a press that hits a port that already has a
\* connection changes neither the connection list nor activeCable,
\* activeCableColor or the palette index
C3_PressOnConnectedPortIsNoOp ==
  [][(PressStep /\ Dragging /\ Hit # Null /\ HasConnection(Hit, connections))
       => UNCHANGED <<connections, activeCable, activeCableColor, currentColorIndex>>]_vars

\* a cable is still in hand after a press on a connected port other than its origin
C3_Witness ==
  /\ lastEvent.kind = "press" /\ lastEvent.dragging
  /\ lastEvent.hit # Null /\ lastEvent.hit # activeCable
  /\ Dragging
  /\ HasConnection(lastEvent.hit, connections)

\* C4: while dragging from O, a press that hits a different port T without a
\* connection appends exactly one connection between O and T, coloured with
\* the preserved colour if the cable was picked up and with
\* palette[currentColorIndex] otherwise, and clears activeCable and
\* activeCableColor
C4_CommitAppendsDraggedColour ==
  [][(PressStep /\ Dragging /\ Hit # Null /\ Hit # activeCable
        /\ ~HasConnection(Hit, connections))
       => LET n == Len(connections)
              colour == IF cableFresh THEN cableColors[currentColorIndex + 1]
                        ELSE activeCableColor
          IN /\ Len(connections') = n + 1
             /\ SubSeq(connections', 1, n) = connections
             /\ connections'[n + 1].from = activeCable
             /\ connections'[n + 1].to = Hit
             /\ connections'[n + 1].color = colour
             /\ activeCable' = Null
             /\ activeCableColor' = Null]_vars

\* C5: in Idle, a press that hits a port with a connection removes exactly
\* that connection and enters Dragging with the connection's other endpoint
\* as origin and the connection's colour; the palette index is unchanged
C5_PickUp ==
  [][(PressStep /\ Idle /\ Hit # Null /\ HasConnection(Hit, connections))
       => \E i \in 1..Len(connections) :
            /\ References(connections[i], Hit)
            /\ connections' = Without(connections, i)
            /\ activeCable' = OtherEnd(connections[i], Hit)
            /\ activeCableColor' = connections[i].color
            /\ currentColorIndex' = currentColorIndex]_vars

\* a press in Idle removed a connection and left its far end in the hand
C5_Witness ==
  /\ lastEvent.kind = "press" /\ ~lastEvent.dragging
  /\ lastEvent.hit # Null /\ lastEvent.delta = -1
  /\ Dragging /\ activeCable # lastEvent.hit
  /\ activeCableColor # Null
  /\ ~HasConnection(lastEvent.hit, connections)

\* C6: the palette index equals the number of commits of cables that were
\* started fresh on an unconnected port, modulo the palette length
C6_PaletteIndexCountsFreshCommits == currentColorIndex = freshCommits

\* C7: while dragging, a press that hits no port discards the cable and
\* neither creates nor removes a connection
C7_MissWhileDraggingCancels ==
  [][(PressStep /\ Dragging /\ Hit = Null)
       => /\ activeCable' = Null
          /\ activeCableColor' = Null
          /\ connections' = connections]_vars

\* a picked-up cable was dropped by a press on the curve of a connection,
\* which is still there
C7_Witness ==
  /\ lastEvent.kind = "press" /\ lastEvent.dragging /\ lastEvent.hit = Null
  /\ lastEvent.pos = SagPoint
  /\ Idle
  /\ \E i \in 1..Len(connections) :
       connectionNearMouse(connections[i], ports, SagPoint[1], SagPoint[2])

CurvesNear(conns, pos) ==
  {i \in 1..Len(conns) : connectionNearMouse(conns[i], ports, pos[1], pos[2])}

Min(S) == CHOOSE m \in S : \A k \in S : m <= k

\* C9: in Idle, a press that hits no port deletes the first connection, in
\* list order, whose curve is within the delete distance, leaves the others
\* in place and in order and stays in Idle; with no curve near it changes
\* nothing
C9_CurveDeleteFirstMatch ==
  [][(PressStep /\ Idle /\ Hit = Null)
       => LET near == CurvesNear(connections, lastEvent'.pos)
          IN /\ IF near # {}
                THEN connections' = Without(connections, Min(near))
                ELSE connections' = connections
             /\ UNCHANGED <<activeCable, activeCableColor, currentColorIndex>>]_vars

\* a press on empty space removed one connection while another curve under
\* the pointer stayed
C9_Witness ==
  /\ lastEvent.kind = "press" /\ ~lastEvent.dragging /\ lastEvent.hit = Null
  /\ lastEvent.delta = -1
  /\ Idle
  /\ CurvesNear(connections, lastEvent.pos) # {}

\* the ids of the ports of the active room
ActivePortIds == {ports[i].id : i \in 1..Len(ports)}

\* the connection c is the only one at either of its two distinct ends
SoleAtBothEnds(c, conns) ==
  /\ c.from # c.to
  /\ c.from \in ActivePortIds /\ c.to \in ActivePortIds
  /\ EndpointCount(c.from, conns) = 1
  /\ EndpointCount(c.to, conns) = 1

\* this state is the one a press reached by connecting two unconnected ports
JustConnected ==
  /\ lastEvent.kind = "press" /\ lastEvent.delta = 1
  /\ SoleAtBothEnds(connections[Len(connections)], connections)

\* C10: after two unconnected ports A and B are connected, isPortConnected
\* is true of both; when the next event removes that connection (a press on
\* its curve, a press that picks it up, clear-all) isPortConnected is false
\* of both again
C10_ConnectDisconnectRoundTrip ==
  [][/\ (PressStep /\ Dragging /\ Hit # Null /\ Hit # activeCable
           /\ activeCable \in ActivePortIds
           /\ ~HasConnection(Hit, connections) /\ ~HasConnection(activeCable, connections)
           /\ Len(connections') = Len(connections) + 1)
          => /\ isPortConnected(portWithId(ports, activeCable), connections')
             /\ isPortConnected(portWithId(ports, Hit), connections')
     /\ (JustConnected /\ (PressStep \/ ClearStep)
           /\ \A i \in 1..Len(connections') : connections'[i] # connections[Len(connections)])
          => LET c == connections[Len(connections)]
             IN /\ isPortConnected(portWithId(ports, c.from), connections)
                /\ isPortConnected(portWithId(ports, c.to), connections)
                /\ ~isPortConnected(portWithId(ports, c.from), connections')
                /\ ~isPortConnected(portWithId(ports, c.to), connections')]_vars

\* a connection was made and the very next press, on its curve, removed it
C10_Witness ==
  /\ lastEvent.kind = "press" /\ lastEvent.afterCommit
  /\ lastEvent.hit = Null /\ lastEvent.delta = -1
  /\ \A i \in 1..Len(ports) : ~isPortConnected(ports[i], connections)

\* C11: isPortConnected is true of a port exactly when some connection of
\* the list references the port's id on either end, for controller records
\* and createConnection records (port objects or id strings given), also
\* after the port objects have been generated again
C11_IsPortConnectedIffReferenced ==
  \A i \in 1..Len(ports) :
    isPortConnected(ports[i], connections) <=> HasConnection(ports[i].id, connections)

\* ------------------------------------------------------------------------
\* Vocabulary of the registry properties
\* ------------------------------------------------------------------------
\* this step is the call kind(portId, roomId, ...)
RegistryStep(kind, portId, roomId) ==
  /\ nEvents' = nEvents + 1
  /\ lastEvent'.kind = kind
  /\ lastEvent'.portId = portId
  /\ lastEvent'.roomName = roomId

\* the last call was kind(portId, roomId, ...)
LastCall(kind, portId, roomId) ==
  /\ lastEvent.kind = kind
  /\ lastEvent.portId = portId
  /\ lastEvent.roomName = roomId

\* the entry e lists every room and carries no signal
RegisteredEverywhereNoSignal(e) ==
  /\ e # NoEntry
  /\ \A r \in RegistryRooms : \E i \in 1..Len(e.rooms) : e.rooms[i] = r
  /\ e.signals = <<>>

\* the entry e has an entry keyed by the room whose sourceRoom is that room
HoldsOwnSignal(e, roomId) ==
  \E i \in 1..Len(e.signals) : e.signals[i].roomId = roomId /\ e.signals[i].sourceRoom = roomId

\* C12: for p registered in all three rooms with no signal, setPortSignal(p,
\* R1, c) makes hasPortCrossRoomSignal true for the two other rooms and false
\* for R1, and a following removePortSignal(p, R1) makes it false for the
\* other rooms
C12_PropagationScenario ==
  [][\A p \in RegistryPortIds, r1 \in RegistryRooms :
       /\ (RegisteredEverywhereNoSignal(registry[p]) /\ RegistryStep("setPortSignal", p, r1))
            => /\ \A r \in RegistryRooms \ {r1} : hasPortCrossRoomSignal(registry', p, r)
               /\ ~hasPortCrossRoomSignal(registry', p, r1)
       /\ (/\ LastCall("setPortSignal", p, r1)
           /\ RegisteredEverywhereNoSignal(lastEvent.before)
           /\ RegistryStep("removePortSignal", p, r1))
            => \A r \in RegistryRooms \ {r1} : ~hasPortCrossRoomSignal(registry', p, r)]_vars

\* C13: whenever a room sees a foreign signal on p, the room named as its
\* sourceRoom holds its own originating entry for p
C13_SignalsDoNotOutliveSource ==
  \A p \in PortIds, r \in RegistryRooms :
    hasPortCrossRoomSignal(registry, p, r)
      => \A i \in 1..Len(registry[p].signals) :
           registry[p].signals[i].sourceRoom # r
             => HoldsOwnSignal(registry[p], registry[p].signals[i].sourceRoom)

\* C14: after the master room of p has called removePortSignal and no signal
\* entry of p is left, the next room to call setPortSignal for p becomes the
\* master: masterSource names it, it holds its own entry, getPortType
\* reports 'master' for it and not for the former master
C14_FirstWriterBecomesMaster ==
  [][\A p \in RegistryPortIds, r \in RegistryRooms :
       (/\ lastEvent.kind = "removePortSignal" /\ lastEvent.portId = p
        /\ lastEvent.before # NoEntry
        /\ lastEvent.before.masterSource.roomId = lastEvent.roomName
        /\ registry[p] # NoEntry /\ registry[p].signals = <<>>
        /\ RegistryStep("setPortSignal", p, r))
         => /\ registry'[p].masterSource.roomId = r
            /\ HoldsOwnSignal(registry'[p], r)
            /\ getPortType(registry', p, r) = "master"
            /\ lastEvent.roomName # r
                 => getPortType(registry', p, lastEvent.roomName) # "master"]_vars

\* the rooms getPortType reports as master of p, and the rooms that hold an
\* originating entry for p
MasterRooms(reg, p) == {r \in RegistryRooms : getPortType(reg, p, r) = "master"}
OriginRooms(reg, p) ==
  IF reg[p] = NoEntry THEN {} ELSE {r \in RegistryRooms : HoldsOwnSignal(reg[p], r)}

Occurrences(e, roomId) == Cardinality({i \in 1..Len(e.rooms) : e.rooms[i] = roomId})

\* C16: registerPort is idempotent: in every registry state a second
\* registerPort(p, R) changes nothing, R is once in the room list of p, and
\* the signals, the master and the other identifiers are untouched
C16_RegisterPortIdempotent ==
  \A p \in PortIds, r \in RegistryRooms :
    LET once == registerPort(registry, p, r)
        twice == registerPort(once, p, r)
    IN /\ twice = once
       /\ Occurrences(once[p], r) = 1
       /\ \A q \in PortIds \ {p} : once[q] = registry[q]
       /\ registry[p] # NoEntry
            => /\ once[p].signals = registry[p].signals
               /\ once[p].masterSource = registry[p].masterSource
               /\ once[p].connections = registry[p].connections

\* registerPort was called for a room the identifier already listed, on an
\* entry that carries signals and a master
C16_Witness ==
  /\ lastEvent.kind = "registerPort"
  /\ lastEvent.before # NoEntry
  /\ lastEvent.before = registry[lastEvent.portId]
  /\ Occurrences(registry[lastEvent.portId], lastEvent.roomName) = 1
  /\ Len(registry[lastEvent.portId].signals) > 0
  /\ registry[lastEvent.portId].masterSource # NoMaster

\* C17: after a room's connection on p is removed (removePortSignal(p, R)),
\* getPortType reports neither 'transmitter' nor 'master' for that room
C17_RemovedRoomNeitherTransmitterNorMaster ==
  [][\A p \in RegistryPortIds, r \in RegistryRooms :
       RegistryStep("removePortSignal", p, r)
         => getPortType(registry', p, r) \notin {"transmitter", "master"}]_vars

\* C18: every controller transition that adds a connection asserts the
\* signal of both endpoint ids in the active room, so that the active room
\* is master of an endpoint that had no master and every other room
\* registered for it is a receiver; every transition that removes a
\* connection removes the signal of its endpoints
C18_ControllerAssertsSignals ==
  [][/\ (PressStep /\ Len(connections') = Len(connections) + 1)
          => LET c == connections'[Len(connections')]
             IN \A id \in {c.from, c.to} :
                  /\ registry'[id] # NoEntry
                  /\ hasKey(registry'[id].signals, activeRoomId)
                  /\ registry[id].masterSource = NoMaster
                       => /\ getPortType(registry', id, activeRoomId) = "master"
                          /\ \A i \in 1..Len(registry'[id].rooms) :
                               registry'[id].rooms[i] # activeRoomId
                                 => getPortType(registry', id, registry'[id].rooms[i]) = "receiver"
     /\ ((PressStep \/ ClearStep) /\ Len(connections') < Len(connections))
          => \A i \in 1..Len(connections) :
               (\A j \in 1..Len(connections') : connections'[j] # connections[i])
                 => \A id \in {connections[i].from, connections[i].to} :
                      (~HasConnection(id, connections') /\ registry'[id] # NoEntry)
                        => ~hasKey(registry'[id].signals, activeRoomId)]_vars

\* C19: for the room that is master of p no ring is shown, and a ring is
\* shown for a room only when that room sees a signal whose sourceRoom is
\* another room
C19_NoRingOnMaster ==
  \A p \in PortIds, r \in RegistryRooms :
    /\ getPortType(registry, p, r) = "master" => ~shouldPortShowRing(registry, p, r)
    /\ shouldPortShowRing(registry, p, r) => hasPortCrossRoomSignal(registry, p, r)

\* an identifier has a master and another room shows the ring
C19_Witness ==
  \E p \in PortIds, r1 \in RegistryRooms, r2 \in RegistryRooms :
    /\ getPortType(registry, p, r1) = "master"
    /\ HoldsOwnSignal(registry[p], r1)
    /\ r2 # r1
    /\ shouldPortShowRing(registry, p, r2)

\* C20: on an identifier the registry has no entry for, setPortSignal,
\* removePortSignal, unregisterPort and clearPortSignals leave the registry
\* unchanged, and the queries return false / null / 'unconnected'
C20_UnknownIdentifierNoOp ==
  [][\A p \in RegistryPortIds :
       (/\ registry[p] = NoEntry
        /\ nEvents' = nEvents + 1
        /\ lastEvent'.portId = p
        /\ lastEvent'.kind \in {"setPortSignal", "removePortSignal", "unregisterPort",
                                "clearPortSignals"})
         => /\ registry' = registry
            /\ \A r \in RegistryRooms :
                 /\ ~hasPortCrossRoomSignal(registry, p, r)
                 /\ getPortSignalColor(registry, p, r) = Null
                 /\ getPortCrossRoomSignalColor(registry, p, r) = Null
                 /\ getPortType(registry, p, r) = "unconnected"
                 /\ ~shouldPortShowRing(registry, p, r)]_vars

\* ------------------------------------------------------------------------
\* Room-set reload, render tick and dirty flags
\* ------------------------------------------------------------------------
\* the last step was an event of the given kind
LastKind(kind) == lastEvent.kind = kind

\* the step is an event of the given kind
StepOfKind(kind) == nEvents' = nEvents + 1 /\ lastEvent'.kind = kind

AllDirty(d) == \A l \in LayerSet : d[l]
AllClean(d) == \A l \in LayerSet : ~d[l]

\* C21: when a room-set reload has completed, the registry holds no signal
\* entry and no master for any identifier, the active list, the global list
\* and every room's stored list are empty and no room is active, whatever
\* events were handled while the load was in flight
C21_ReloadResetsCore ==
  LastKind("reloadResolved") =>
    /\ \A p \in PortIds :
         registry[p] # NoEntry
           => registry[p].signals = <<>> /\ registry[p].masterSource = NoMaster
    /\ connections = <<>>
    /\ allConnections = <<>>
    /\ \A r \in Rooms : roomStates[r].connections = <<>>
    /\ activeRoomId = Null

\* a reload completed right after a press that added a connection, which
\* was therefore handled while the load was in flight, and the active list
\* lost that connection
C21_Witness ==
  /\ LastKind("reloadResolved")
  /\ lastEvent.afterCommit
  /\ lastEvent.delta < 0

\* C22: immediately after a showRoom of a room other than the active one,
\* after a hideRoom and after a completed reload, activeCable is null
C22_SwitchDiscardsActiveCable ==
  [][(\/ (StepOfKind("showRoom") /\ activeRoomId # Null
                                  /\ lastEvent'.roomName # activeRoomId)
      \/ StepOfKind("hideRoom")
      \/ StepOfKind("reloadResolved"))
       => activeCable' = Null]_vars

\* C23: immediately after an event that adds or removes a connection (a
\* press that commits, picks up or deletes by curve proximity, a clear-all
\* that removes at least one connection) the cable layer's and the port
\* layer's dirty flags are both true (layers initialized)
C23_ConnectionChangeMarksCableAndPort ==
  [][((PressStep \/ ClearStep) /\ Len(connections') # Len(connections) /\ layersInitialized)
       => dirtyLayers'[LAYER_CABLE] /\ dirtyLayers'[LAYER_PORT]]_vars

\* a press changed the connection list after a tick had cleaned the flags:
\* the cable and port flags are set and another layer is still clean
C23_Witness ==
  /\ LastKind("press")
  /\ lastEvent.delta # 0
  /\ dirtyLayers[LAYER_CABLE]
  /\ dirtyLayers[LAYER_PORT]
  /\ \E l \in LayerSet : ~dirtyLayers[l]

\* some room is visible
HasVisibleRooms == \E r \in Rooms : roomStates[r].visible

\* C24: when a render tick has completed and nothing has happened since,
\* all five layers' dirty flags are false, with and without a visible room,
\* although clearing a layer marks it dirty before it is marked clean
C24_TickLeavesAllClean ==
  LastKind("draw") => AllClean(dirtyLayers)

\* a tick ran with a room visible and a cable in hand and redrew layers
C24_Witness ==
  /\ LastKind("draw")
  /\ HasVisibleRooms
  /\ lastEvent.dragging
  /\ LAYER_CABLE \in lastEvent.redrawn
  /\ AllClean(dirtyLayers)

\* the flag of layer l is true when the tick of this step reaches the
\* layer: it was true when the tick began, or the tick has marked it (the
\* cable layer after a cursor movement or with a cable in hand, the port
\* layer when the closest available port changed, a room being visible)
DirtyWhenReached(l) ==
  \/ dirtyLayers[l]
  \/ /\ HasVisibleRooms
     /\ l = LAYER_CABLE
     /\ (cursor # prevCursor \/ activeCable # Null)
  \/ /\ HasVisibleRooms
     /\ l = LAYER_PORT
     /\ closestAvailablePort' # closestAvailablePort

\* C25: on a render tick a layer is cleared and redrawn if and only if its
\* dirty flag is true when the tick reaches it; a layer whose flag is false
\* is neither cleared nor redrawn and its flag stays false
C25_RedrawnIffDirty ==
  [][StepOfKind("draw")
       => \A l \in LayerSet :
            /\ l \in lastEvent'.redrawn <=> DirtyWhenReached(l)
            /\ l \notin lastEvent'.redrawn => ~dirtyLayers'[l] /\ ~dirtyLayers[l]]_vars

\* a tick redrew some layers and left others untouched
C25_Witness ==
  /\ LastKind("draw")
  /\ lastEvent.redrawn # {}
  /\ lastEvent.redrawn # LayerSet

\* C26: every resize of the layers and every room switch (showRoom,
\* hideRoom, completed reload) leaves all five layers' dirty flags true when
\* it finishes (layers initialized)
C26_SwitchMarksAllDirty ==
  /\ [](layersInitialized => AllDirty(resizeAllLayers(dirtyLayers)))
  /\ [][((StepOfKind("showRoom") \/ StepOfKind("hideRoom") \/ StepOfKind("reloadResolved"))
          /\ layersInitialized)
         => AllDirty(dirtyLayers')]_vars

\* a room was hidden when a tick had cleaned every flag
C26_Witness ==
  /\ LastKind("hideRoom")
  /\ lastEvent.wasClean
  /\ AllDirty(dirtyLayers)

\* C27: a render tick leaves the ports, connections, activeCable,
\* activeCableColor, palette index, room states and the registry exactly as
\* they were and mutates no other field of the application state
C27_TickMutatesNothing ==
  [][StepOfKind("draw") => UNCHANGED <<appVars, regVars, renderVars>>]_vars

\* C28: a render tick itself sets no dirty flag: a layer is redrawn in a
\* tick only if its flag was already true when the tick began, that is if
\* an event handler marked it since its last redraw
C28_TickSetsNoDirtyFlag ==
  [][StepOfKind("draw") => \A l \in lastEvent'.redrawn : dirtyLayers[l]]_vars

\* the endpoints and colours of a connection list, without the room tag
\* that saving a list adds
Untagged(conns) ==
  [i \in 1..Len(conns) |-> [from |-> conns[i].from, to |-> conns[i].to,
                             color |-> conns[i].color]]

\* C29: connections are preserved per room across room switches: a
\* showRoom or hideRoom event that leaves the active room active leaves its
\* list as it was, a room that becomes active again shows the list it had
\* when it stopped being active, and the active list never holds a
\* connection of another room
C29_ConnectionsPreservedPerRoom ==
  [][(StepOfKind("showRoom") \/ StepOfKind("hideRoom"))
       => /\ (activeRoomId' # Null /\ activeRoomId' = activeRoomId)
               => Untagged(connections') = Untagged(connections)
          /\ (activeRoomId' # Null /\ activeRoomId' # activeRoomId)
               => Untagged(connections') = Untagged(leftWith[activeRoomId'])
          /\ \A i \in 1..Len(connections') :
               connections'[i].roomId \in {Undefined, activeRoomId'}]_vars

\* C30: when an error is raised while a press is being handled, activeCable
\* is null after the failed press and the error does not leave the handler
C30_FailedPressClearsActiveCable ==
  [][StepOfKind("pressThrows") => activeCable' = Null /\ ~lastEvent'.thrown]_vars

\* ------------------------------------------------------------------------
\* Hit-testing
\* ------------------------------------------------------------------------
\* four times the squared distance from the pointer of the last call to the
\* i-th port of the list handed in
CallD2x4(i) == 4 * dist2(lastEvent.pos[1], lastEvent.pos[2], ports[i].x, ports[i].y)

\* the indices of the ports with valid coordinates whose distance to the
\* pointer of the last call is strictly below the radius in force
InRange ==
  LET r == IF lastEvent.radius = 0 THEN 2 * portRadius ELSE lastEvent.radius
  IN {i \in 1..Len(ports) : hasCoordinates(ports[i]) /\ CallD2x4(i) < r * r}

\* C31: getPortAt returns the port with the smallest distance to (x, y)
\* among the ports with valid coordinates whose distance is strictly below
\* the radius, the first such port in list order on an exact tie, and null
\* when no port is within range or the list is empty
C31_GetPortAtNearestWithinRadius ==
  lastEvent.kind = "getPortAt" =>
    IF InRange = {} THEN lastEvent.found = NoPort
    ELSE \E k \in InRange :
           /\ lastEvent.found = ports[k]
           /\ \A j \in InRange : CallD2x4(k) <= CallD2x4(j)
           /\ \A j \in InRange : j < k => CallD2x4(k) < CallD2x4(j)

\* a call on a list whose first port lacks coordinates and whose second port
\* is within range but farther than the third returned the third
C31_Witness ==
  /\ lastEvent.kind = "getPortAt"
  /\ Len(ports) = 3
  /\ ~hasCoordinates(ports[1])
  /\ InRange = {2, 3}
  /\ CallD2x4(3) < CallD2x4(2)
  /\ lastEvent.found = ports[3]


\* ------------------------------------------------------------------------
\* Mirrors of an asserted master
\* ------------------------------------------------------------------------
\* the room m is the master of the entry e and holds its originating signal
MasterAsserted(e, m) ==
  /\ e # NoEntry
  /\ e.masterSource # NoMaster
  /\ e.masterSource.roomId = m
  /\ HoldsOwnSignal(e, m)

\* the colour of the signal the entry e holds for the room
SignalColorOf(e, roomId) ==
  (CHOOSE sig \in {e.signals[i] : i \in 1..Len(e.signals)} : sig.roomId = roomId).color

\* C32: while a master is asserted for an identifier, its signals map has an
\* entry for every room registered for it, rooms registered after the signal
\* was set included: every registered room other than the master holds a
\* mirror entry whose sourceRoom is the master room
C32_EveryRegisteredRoomHasEntry ==
  \A p \in RegistryPortIds, m \in RegistryRooms :
    MasterAsserted(registry[p], m) =>
      \A i \in 1..Len(registry[p].rooms) :
        \E j \in 1..Len(registry[p].signals) :
          /\ registry[p].signals[j].roomId = registry[p].rooms[i]
          /\ registry[p].signals[j].sourceRoom = m

\* C33: while a master is asserted for an identifier with colour c, every
\* signal entry held by another room carries c, and
\* getPortCrossRoomSignalColor returns c for every other room
C33_MirrorsCarryMasterColour ==
  \A p \in RegistryPortIds, m \in RegistryRooms :
    MasterAsserted(registry[p], m) =>
      LET c == SignalColorOf(registry[p], m)
      IN /\ \A j \in 1..Len(registry[p].signals) : registry[p].signals[j].color = c
         /\ \A r \in RegistryRooms \ {m} : getPortCrossRoomSignalColor(registry, p, r) = c

\* ------------------------------------------------------------------------
\* Ports before cables
\* ------------------------------------------------------------------------
\* C34: a press that hits a port never deletes a connection by curve
\* proximity: it does nothing, starts a drag from the port, picks up a
\* connection of that port, or commits the cable in hand to the port
C34_PortsBeforeCableDeletion ==
  [][(PressStep /\ Hit # Null)
       => \/ UNCHANGED <<connections, activeCable>>
          \/ /\ Idle
             /\ UNCHANGED connections
             /\ activeCable' = Hit
          \/ /\ Idle
             /\ \E i \in 1..Len(connections) :
                  /\ References(connections[i], Hit)
                  /\ connections' = Without(connections, i)
                  /\ activeCable' = OtherEnd(connections[i], Hit)
          \/ /\ Dragging
             /\ Len(connections') = Len(connections) + 1
             /\ SubSeq(connections', 1, Len(connections)) = connections
             /\ connections'[Len(connections')].from = activeCable
             /\ connections'[Len(connections')].to = Hit
             /\ activeCable' = Null]_vars

\* in Idle a press hit a port while the curve of that port's connection was
\* within the deletion threshold of the pointer, and the cable came into the
\* hand
C34_Witness ==
  /\ lastEvent.kind = "press" /\ ~lastEvent.dragging
  /\ lastEvent.hit # Null /\ lastEvent.delta = -1
  /\ Dragging
  /\ connectionNearMouse([from |-> activeCable, to |-> lastEvent.hit], ports,
                         lastEvent.pos[1], lastEvent.pos[2])

\* ------------------------------------------------------------------------
\* End of a drag, hiding a room
\* ------------------------------------------------------------------------
\* C35: in every reachable state activeCableColor is null whenever
\* activeCable is null: no preserved pick-up colour survives the end of its
\* drag
C35_NoColourWithoutCable == activeCable = Null => activeCableColor = Null

\* C36: a hideRoom event naming a room other than the active room leaves
\* the active room, its active connection list and every room's stored
\* connections unchanged
C36_HideOtherRoomKeepsActive ==
  [][(StepOfKind("hideRoom") /\ activeRoomId # Null /\ lastEvent'.roomName # activeRoomId)
       => /\ UNCHANGED <<activeRoomId, connections>>
          /\ \A r \in Rooms : roomStates'[r].connections = roomStates[r].connections]_vars

\* ------------------------------------------------------------------------
\* Pick-up and re-plug
\* ------------------------------------------------------------------------
\* a connection as an unordered pair of endpoints with its colour
Pair(a, b, color) == [ends |-> {a, b}, color |-> color]
PairSet(conns) == {Pair(conns[i].from, conns[i].to, conns[i].color) : i \in 1..Len(conns)}

\* the last event picked a cable up in Idle at the port it hit
PickedUp ==
  /\ lastEvent.kind = "press" /\ ~lastEvent.dragging
  /\ lastEvent.hit # Null /\ lastEvent.delta = -1

\* C37: a press in Idle on endpoint P of a connection takes that connection
\* out of the list and into the hand without moving the palette index, and
\* a press on P (now unconnected) right after it puts a connection with the
\* same two endpoints and the same colour back, returns to Idle and leaves
\* the palette index unchanged: the connections are the same set of
\* unordered endpoint pairs with the same colours as before the pick-up
C37_PickUpReplugRestores ==
  [][/\ (PressStep /\ Idle /\ Hit # Null /\ HasConnection(Hit, connections))
          => /\ PairSet(connections) =
                  PairSet(connections') \cup {Pair(Hit, activeCable', activeCableColor')}
             /\ Len(connections) = Len(connections') + 1
             /\ currentColorIndex' = currentColorIndex
     /\ (PressStep /\ PickedUp /\ Hit = lastEvent.hit /\ ~HasConnection(Hit, connections))
          => /\ PairSet(connections') =
                  PairSet(connections) \cup {Pair(Hit, activeCable, activeCableColor)}
             /\ Len(connections') = Len(connections) + 1
             /\ activeCable' = Null
             /\ currentColorIndex' = currentColorIndex]_vars

\* a cable picked up at a port was plugged into that port again by the next
\* press, and the port has its connection back
C37_Witness ==
  /\ lastEvent.kind = "press" /\ lastEvent.afterPickUpHere
  /\ lastEvent.dragging /\ lastEvent.delta = 1
  /\ Idle
  /\ connections[Len(connections)].to = lastEvent.hit

\* ------------------------------------------------------------------------
\* Redraw under the animation loop
\* ------------------------------------------------------------------------
\* the step is a frame of the animation loop
TickStep == lastEvent'.kind = "tick" /\ nEvents' = nEvents

\* C38: once the layers are initialized, every layer that is dirty is
\* redrawn and clean again after a later tick, and while a cable is in hand
\* every tick redraws the cable layer
C38_DirtyLayersRedrawn ==
  /\ \A l \in LayerSet : (layersInitialized /\ dirtyLayers[l]) ~> ~dirtyLayers[l]
  /\ [][(TickStep /\ layersInitialized /\ activeCable # Null)
          => LAYER_CABLE \in lastEvent'.redrawn]_vars

\* ------------------------------------------------------------------------
\* The global connection list
\* ------------------------------------------------------------------------
\* the connections of a list, without the room tag
ConnectionSet(conns) == {Untagged(conns)[i] : i \in 1..Len(conns)}

\* the connections of every room: the active room's current list and the
\* stored lists of the other rooms
EveryRoomsConnections ==
  UNION {ConnectionSet(IF r = activeRoomId THEN connections ELSE roomStates[r].connections) :
           r \in Rooms}

\* C39: after addConnection(c) the global list allConnections contains c,
\* after removeConnection(c) it does not, and at all times allConnections
\* holds exactly the connections of every room, the current list of the
\* active room included
C39_GlobalListIsUnionOfRooms ==
  /\ [](ConnectionSet(allConnections) = EveryRoomsConnections)
  /\ [][/\ (StepOfKind("addConnection") /\ activeRoomId # Null)
             => Untagged(connections')[Len(connections')] \in ConnectionSet(allConnections')
        /\ StepOfKind("removeConnection")
             => \A i \in 1..Len(connections) :
                  (connections' = RemoveAt(connections, i)
                     /\ Untagged(connections)[i] \notin ConnectionSet(connections'))
                    => Untagged(connections)[i] \notin ConnectionSet(allConnections')]_vars

\* ------------------------------------------------------------------------
\* Room-scoped connection queries
\* ------------------------------------------------------------------------
\* some connection of the list that belongs to the room, or to no room,
\* references the id on either end
ReferencedInRoom(id, conns, roomId) ==
  \E k \in 1..Len(conns) :
    /\ conns[k].roomId \in {roomId, Undefined, Null}
    /\ References(conns[k], id)

\* C40: isPortConnectedInRoom(port, connections, roomId) is true exactly
\* when some connection of the room (or without a room) references the
\* port's id on either end, false when the list holds none, and true
\* exactly when findConnectionWithPort finds a connection
C40_ConnectedInRoomIffReferenced ==
  \A i \in 1..Len(ports), r \in Rooms :
    /\ isPortConnectedInRoom(ports[i], connections, r)
         <=> ReferencedInRoom(ports[i].id, connections, r)
    /\ isPortConnectedInRoom(ports[i], connections, r)
         <=> findConnectionWithPort(ports[i], connections, r)
               \notin {NoConnection, UndefinedConnection}

====
